---- MODULE Spec2Model ----
(***************************************************************************)
(* Statement-of-Facts timeline of src/src/data/sofEvents.ts: the event     *)
(* catalog, the document operations (create / add / remove / update), the  *)
(* chronological view, the time-in-port computation and the result         *)
(* section with its milestone pairs.                                       *)
(*                                                                         *)
(* Conventions for JavaScript values:                                      *)
(*  - an absent optional property (undefined) is the string `undefined';   *)
(*  - an optional object (the result of Array.prototype.find) is a         *)
(*    sequence of length 0 (undefined) or 1 (the object);                  *)
(*  - a number that may be NaN is a record [nan, v];                       *)
(*  - Date.getTime() is in milliseconds counted from                       *)
(*    2025-08-06T00:00:00.000Z instead of 1970 (only differences of times  *)
(*    are ever used, and 32-bit integers hold them);                       *)
(*  - a value in hours is kept in hundredths of an hour (2.5 h is 250), so *)
(*    that the division by 1000 * 60 * 60 is exact on the inputs used.     *)
(***************************************************************************)
EXTENDS Integers, Sequences, FiniteSets, TLC

undefined == "<undefined>"

(* ----------------------------- Event catalog --------------------------- *)

sofEvents ==
  <<
  [id |-> "vessel_arrived_opl", category |-> "Arrival & Port Entry", name |-> "Vessel arrived at port limits (OPL)",
   description |-> "Vessel reaches the designated port limits area",
   requiresTimestamp |-> TRUE, requiresRemarks |-> undefined, requiresLocation |-> "true"],
  [id |-> "vessel_arrived_anchorage", category |-> "Arrival & Port Entry", name |-> "Anchored",
   description |-> "Vessel reaches and secures at the designated anchorage area",
   requiresTimestamp |-> TRUE, requiresRemarks |-> undefined, requiresLocation |-> "true"],
  [id |-> "pilot_onboard_arrival", category |-> "Arrival & Port Entry", name |-> "Pilot onboard (arrival)",
   description |-> "Harbor pilot boards the vessel to assist with port navigation",
   requiresTimestamp |-> TRUE, requiresRemarks |-> undefined, requiresLocation |-> undefined],
  [id |-> "tugs_made_fast_arrival", category |-> "Arrival & Port Entry", name |-> "Tugs made fast (arrival)",
   description |-> "Tugboats are secured to the vessel to assist with berthing",
   requiresTimestamp |-> TRUE, requiresRemarks |-> undefined, requiresLocation |-> undefined],
  [id |-> "vessel_alongside_berthed", category |-> "Arrival & Port Entry", name |-> "Berthed",
   description |-> "Vessel is positioned alongside the designated berth",
   requiresTimestamp |-> TRUE, requiresRemarks |-> undefined, requiresLocation |-> "true"],
  [id |-> "first_line_ashore", category |-> "Arrival & Port Entry", name |-> "First line ashore",
   description |-> "First mooring line is secured to the shore",
   requiresTimestamp |-> TRUE, requiresRemarks |-> undefined, requiresLocation |-> undefined],
  [id |-> "all_fast", category |-> "Arrival & Port Entry", name |-> "All fast (mooring complete)",
   description |-> "All mooring lines are secured and vessel is fully moored",
   requiresTimestamp |-> TRUE, requiresRemarks |-> undefined, requiresLocation |-> undefined],
  [id |-> "gangway_secured", category |-> "Arrival & Port Entry", name |-> "Gangway secured",
   description |-> "Ship's gangway is lowered and secured for personnel access",
   requiresTimestamp |-> TRUE, requiresRemarks |-> undefined, requiresLocation |-> undefined],
  [id |-> "free_pratique_granted", category |-> "Arrival & Port Entry", name |-> "Free pratique granted",
   description |-> "Health clearance granted allowing ship to interact with the port",
   requiresTimestamp |-> TRUE, requiresRemarks |-> undefined, requiresLocation |-> undefined],
  [id |-> "immigration_clearance_completed", category |-> "Arrival & Port Entry", name |-> "Immigration clearance completed",
   description |-> "Immigration authorities have completed crew verification",
   requiresTimestamp |-> TRUE, requiresRemarks |-> undefined, requiresLocation |-> undefined],
  [id |-> "customs_clearance_completed", category |-> "Arrival & Port Entry", name |-> "Customs clearance completed",
   description |-> "Customs authorities have completed cargo and vessel clearance",
   requiresTimestamp |-> TRUE, requiresRemarks |-> undefined, requiresLocation |-> undefined],
  [id |-> "port_state_control_inspection", category |-> "Arrival & Port Entry", name |-> "Port state control inspection",
   description |-> "Inspection by port authorities to verify compliance with regulations",
   requiresTimestamp |-> TRUE, requiresRemarks |-> "true", requiresLocation |-> undefined],
  [id |-> "port_clearance_granted", category |-> "Arrival & Port Entry", name |-> "Port clearance granted",
   description |-> "Final clearance granted by port authorities",
   requiresTimestamp |-> TRUE, requiresRemarks |-> undefined, requiresLocation |-> undefined],
  [id |-> "draught_survey_initial", category |-> "Pre-Cargo Operations", name |-> "Draught survey (initial)",
   description |-> "Initial measurement of vessel's draft to determine cargo quantity",
   requiresTimestamp |-> TRUE, requiresRemarks |-> "true", requiresLocation |-> undefined],
  [id |-> "hatch_tank_inspection", category |-> "Pre-Cargo Operations", name |-> "Hatch/tank inspection",
   description |-> "Inspection of cargo spaces before operations",
   requiresTimestamp |-> TRUE, requiresRemarks |-> "true", requiresLocation |-> undefined],
  [id |-> "surveyor_onboard", category |-> "Pre-Cargo Operations", name |-> "Surveyor onboard",
   description |-> "Independent cargo surveyor boards the vessel",
   requiresTimestamp |-> TRUE, requiresRemarks |-> undefined, requiresLocation |-> undefined],
  [id |-> "sampling_start", category |-> "Pre-Cargo Operations", name |-> "Sampling start",
   description |-> "Beginning of cargo sampling process",
   requiresTimestamp |-> TRUE, requiresRemarks |-> undefined, requiresLocation |-> undefined],
  [id |-> "sampling_completed", category |-> "Pre-Cargo Operations", name |-> "Sampling completed",
   description |-> "Completion of cargo sampling process",
   requiresTimestamp |-> TRUE, requiresRemarks |-> undefined, requiresLocation |-> undefined],
  [id |-> "ballast_operations_start", category |-> "Pre-Cargo Operations", name |-> "Ballast operations start",
   description |-> "Beginning of ballast water operations",
   requiresTimestamp |-> TRUE, requiresRemarks |-> undefined, requiresLocation |-> undefined],
  [id |-> "ballast_operations_stop", category |-> "Pre-Cargo Operations", name |-> "Ballast operations stop",
   description |-> "End of ballast water operations",
   requiresTimestamp |-> TRUE, requiresRemarks |-> undefined, requiresLocation |-> undefined],
  [id |-> "hose_connection", category |-> "Pre-Cargo Operations", name |-> "Hose connection / Loading arm connected",
   description |-> "Cargo transfer equipment connected between ship and shore",
   requiresTimestamp |-> TRUE, requiresRemarks |-> undefined, requiresLocation |-> undefined],
  [id |-> "loading_arm_crane_inspection", category |-> "Pre-Cargo Operations", name |-> "Loading arm/crane inspection",
   description |-> "Inspection of cargo transfer equipment",
   requiresTimestamp |-> TRUE, requiresRemarks |-> "true", requiresLocation |-> undefined],
  [id |-> "cargo_loading_started", category |-> "Cargo Operations", name |-> "Cargo Loading",
   description |-> "Beginning of cargo loading operations",
   requiresTimestamp |-> TRUE, requiresRemarks |-> undefined, requiresLocation |-> undefined],
  [id |-> "cargo_loading_stopped", category |-> "Cargo Operations", name |-> "Cargo loading stopped (temporary)",
   description |-> "Temporary halt of cargo loading operations",
   requiresTimestamp |-> TRUE, requiresRemarks |-> "true", requiresLocation |-> undefined],
  [id |-> "cargo_loading_resumed", category |-> "Cargo Operations", name |-> "Cargo loading resumed",
   description |-> "Resumption of cargo loading after temporary stop",
   requiresTimestamp |-> TRUE, requiresRemarks |-> undefined, requiresLocation |-> undefined],
  [id |-> "cargo_loading_completed", category |-> "Cargo Operations", name |-> "Completed Loading",
   description |-> "Completion of all cargo loading operations",
   requiresTimestamp |-> TRUE, requiresRemarks |-> undefined, requiresLocation |-> undefined],
  [id |-> "cargo_discharging_started", category |-> "Cargo Operations", name |-> "Cargo discharging started",
   description |-> "Beginning of cargo discharge operations",
   requiresTimestamp |-> TRUE, requiresRemarks |-> undefined, requiresLocation |-> undefined],
  [id |-> "cargo_discharging_stopped", category |-> "Cargo Operations", name |-> "Cargo discharging stopped (temporary)",
   description |-> "Temporary halt of cargo discharge operations",
   requiresTimestamp |-> TRUE, requiresRemarks |-> "true", requiresLocation |-> undefined],
  [id |-> "cargo_discharging_resumed", category |-> "Cargo Operations", name |-> "Cargo discharging resumed",
   description |-> "Resumption of cargo discharge after temporary stop",
   requiresTimestamp |-> TRUE, requiresRemarks |-> undefined, requiresLocation |-> undefined],
  [id |-> "cargo_discharging_completed", category |-> "Cargo Operations", name |-> "Cargo discharging completed",
   description |-> "Completion of all cargo discharge operations",
   requiresTimestamp |-> TRUE, requiresRemarks |-> undefined, requiresLocation |-> undefined],
  [id |-> "tank_cleaning_started", category |-> "Cargo Operations", name |-> "Tank cleaning started",
   description |-> "Beginning of tank cleaning operations",
   requiresTimestamp |-> TRUE, requiresRemarks |-> undefined, requiresLocation |-> undefined],
  [id |-> "tank_cleaning_completed", category |-> "Cargo Operations", name |-> "Tank cleaning completed",
   description |-> "Completion of tank cleaning operations",
   requiresTimestamp |-> TRUE, requiresRemarks |-> undefined, requiresLocation |-> undefined],
  [id |-> "hold_cleaning_started", category |-> "Cargo Operations", name |-> "Hold cleaning started",
   description |-> "Beginning of cargo hold cleaning operations",
   requiresTimestamp |-> TRUE, requiresRemarks |-> undefined, requiresLocation |-> undefined],
  [id |-> "hold_cleaning_completed", category |-> "Cargo Operations", name |-> "Hold cleaning completed",
   description |-> "Completion of cargo hold cleaning operations",
   requiresTimestamp |-> TRUE, requiresRemarks |-> undefined, requiresLocation |-> undefined],
  [id |-> "bunker_operations_started", category |-> "Cargo Operations", name |-> "Bunker operations started",
   description |-> "Beginning of vessel refueling operations",
   requiresTimestamp |-> TRUE, requiresRemarks |-> undefined, requiresLocation |-> undefined],
  [id |-> "bunker_operations_completed", category |-> "Cargo Operations", name |-> "Bunker operations completed",
   description |-> "Completion of vessel refueling operations",
   requiresTimestamp |-> TRUE, requiresRemarks |-> undefined, requiresLocation |-> undefined],
  [id |-> "ballasting_started", category |-> "Cargo Operations", name |-> "Ballasting started",
   description |-> "Beginning of taking on ballast water",
   requiresTimestamp |-> TRUE, requiresRemarks |-> undefined, requiresLocation |-> undefined],
  [id |-> "ballasting_completed", category |-> "Cargo Operations", name |-> "Ballasting completed",
   description |-> "Completion of taking on ballast water",
   requiresTimestamp |-> TRUE, requiresRemarks |-> undefined, requiresLocation |-> undefined],
  [id |-> "de_ballasting_started", category |-> "Cargo Operations", name |-> "De-ballasting started",
   description |-> "Beginning of discharging ballast water",
   requiresTimestamp |-> TRUE, requiresRemarks |-> undefined, requiresLocation |-> undefined],
  [id |-> "de_ballasting_completed", category |-> "Cargo Operations", name |-> "De-ballasting completed",
   description |-> "Completion of discharging ballast water",
   requiresTimestamp |-> TRUE, requiresRemarks |-> undefined, requiresLocation |-> undefined],
  [id |-> "weather_stoppage", category |-> "Interruptions & Delays", name |-> "Weather stoppage (rain, fog, storm, swell)",
   description |-> "Operations halted due to adverse weather conditions",
   requiresTimestamp |-> TRUE, requiresRemarks |-> "true", requiresLocation |-> undefined],
  [id |-> "technical_breakdown_ship", category |-> "Interruptions & Delays", name |-> "Technical breakdown (ship equipment)",
   description |-> "Operations halted due to vessel equipment failure",
   requiresTimestamp |-> TRUE, requiresRemarks |-> "true", requiresLocation |-> undefined],
  [id |-> "technical_breakdown_shore", category |-> "Interruptions & Delays", name |-> "Technical breakdown (shore equipment)",
   description |-> "Operations halted due to port equipment failure",
   requiresTimestamp |-> TRUE, requiresRemarks |-> "true", requiresLocation |-> undefined],
  [id |-> "power_failure", category |-> "Interruptions & Delays", name |-> "Power failure (port or vessel)",
   description |-> "Operations halted due to electrical power loss",
   requiresTimestamp |-> TRUE, requiresRemarks |-> "true", requiresLocation |-> undefined],
  [id |-> "strike_labor_stoppage", category |-> "Interruptions & Delays", name |-> "Strike / labor stoppage",
   description |-> "Operations halted due to labor action",
   requiresTimestamp |-> TRUE, requiresRemarks |-> "true", requiresLocation |-> undefined],
  [id |-> "holiday_stoppage", category |-> "Interruptions & Delays", name |-> "Holiday stoppage",
   description |-> "Operations halted due to local holiday",
   requiresTimestamp |-> TRUE, requiresRemarks |-> "true", requiresLocation |-> undefined],
  [id |-> "government_inspection_delay", category |-> "Interruptions & Delays", name |-> "Government inspection delay",
   description |-> "Operations halted for government inspection",
   requiresTimestamp |-> TRUE, requiresRemarks |-> "true", requiresLocation |-> undefined],
  [id |-> "waiting_cargo_availability", category |-> "Interruptions & Delays", name |-> "Waiting for cargo availability",
   description |-> "Delay due to cargo not being ready for loading",
   requiresTimestamp |-> TRUE, requiresRemarks |-> undefined, requiresLocation |-> undefined],
  [id |-> "waiting_surveyor_documents", category |-> "Interruptions & Delays", name |-> "Waiting for surveyor / documents",
   description |-> "Delay due to pending documentation or surveyor availability",
   requiresTimestamp |-> TRUE, requiresRemarks |-> undefined, requiresLocation |-> undefined],
  [id |-> "waiting_berth_congestion", category |-> "Interruptions & Delays", name |-> "Waiting for berth (congestion)",
   description |-> "Delay due to unavailability of berth",
   requiresTimestamp |-> TRUE, requiresRemarks |-> undefined, requiresLocation |-> undefined],
  [id |-> "vessel_shifting", category |-> "Interruptions & Delays", name |-> "Vessel shifting (to/from berth/anchorage)",
   description |-> "Vessel relocating within port area",
   requiresTimestamp |-> TRUE, requiresRemarks |-> undefined, requiresLocation |-> "true"],
  [id |-> "port_authority_stoppage", category |-> "Interruptions & Delays", name |-> "Port authority stoppage",
   description |-> "Operations halted by port authority directive",
   requiresTimestamp |-> TRUE, requiresRemarks |-> "true", requiresLocation |-> undefined],
  [id |-> "nor_tendered", category |-> "Documentation & Surveys", name |-> "Notice of Readiness (NOR) tendered",
   description |-> "Formal notification that vessel is ready for cargo operations",
   requiresTimestamp |-> TRUE, requiresRemarks |-> undefined, requiresLocation |-> undefined],
  [id |-> "nor_accepted", category |-> "Documentation & Surveys", name |-> "Notice of Readiness (NOR) accepted",
   description |-> "Formal acceptance of vessel's readiness for cargo operations",
   requiresTimestamp |-> TRUE, requiresRemarks |-> undefined, requiresLocation |-> undefined],
  [id |-> "ullage_survey_start", category |-> "Documentation & Surveys", name |-> "Ullage survey start",
   description |-> "Beginning of tank ullage measurement",
   requiresTimestamp |-> TRUE, requiresRemarks |-> undefined, requiresLocation |-> undefined],
  [id |-> "ullage_survey_completed", category |-> "Documentation & Surveys", name |-> "Ullage survey completed",
   description |-> "Completion of tank ullage measurement",
   requiresTimestamp |-> TRUE, requiresRemarks |-> undefined, requiresLocation |-> undefined],
  [id |-> "draught_survey_final", category |-> "Documentation & Surveys", name |-> "Draught survey (final)",
   description |-> "Final measurement of vessel's draft to determine cargo quantity",
   requiresTimestamp |-> TRUE, requiresRemarks |-> "true", requiresLocation |-> undefined],
  [id |-> "cargo_tally_measurement_completed", category |-> "Documentation & Surveys", name |-> "Cargo tally / measurement completed",
   description |-> "Completion of cargo quantity verification",
   requiresTimestamp |-> TRUE, requiresRemarks |-> undefined, requiresLocation |-> undefined],
  [id |-> "cargo_documents_completed", category |-> "Documentation & Surveys", name |-> "Cargo documents completed",
   description |-> "Completion of all cargo-related documentation",
   requiresTimestamp |-> TRUE, requiresRemarks |-> undefined, requiresLocation |-> undefined],
  [id |-> "mates_receipt_signed", category |-> "Documentation & Surveys", name |-> "Mate's Receipt signed",
   description |-> "Acknowledgment of cargo received onboard",
   requiresTimestamp |-> TRUE, requiresRemarks |-> undefined, requiresLocation |-> undefined],
  [id |-> "bill_of_lading_signed", category |-> "Documentation & Surveys", name |-> "Bill of Lading signed",
   description |-> "Official cargo ownership document signed",
   requiresTimestamp |-> TRUE, requiresRemarks |-> undefined, requiresLocation |-> undefined],
  [id |-> "statement_of_facts_signed", category |-> "Documentation & Surveys", name |-> "Statement of Facts signed",
   description |-> "Official record of port call events signed by all parties",
   requiresTimestamp |-> TRUE, requiresRemarks |-> undefined, requiresLocation |-> undefined],
  [id |-> "hose_arm_disconnected", category |-> "Departure & Port Exit", name |-> "Hose/arm disconnected",
   description |-> "Cargo transfer equipment disconnected between ship and shore",
   requiresTimestamp |-> TRUE, requiresRemarks |-> undefined, requiresLocation |-> undefined],
  [id |-> "hatch_closing_completed", category |-> "Departure & Port Exit", name |-> "Hatch closing completed",
   description |-> "All cargo hatches secured for sea voyage",
   requiresTimestamp |-> TRUE, requiresRemarks |-> undefined, requiresLocation |-> undefined],
  [id |-> "pilot_onboard_departure", category |-> "Departure & Port Exit", name |-> "Pilot onboard (departure)",
   description |-> "Harbor pilot boards the vessel to assist with port departure",
   requiresTimestamp |-> TRUE, requiresRemarks |-> undefined, requiresLocation |-> undefined],
  [id |-> "tugs_made_fast_departure", category |-> "Departure & Port Exit", name |-> "Tugs made fast (departure)",
   description |-> "Tugboats are secured to the vessel to assist with unberthing",
   requiresTimestamp |-> TRUE, requiresRemarks |-> undefined, requiresLocation |-> undefined],
  [id |-> "last_line_off", category |-> "Departure & Port Exit", name |-> "Last line off",
   description |-> "Final mooring line released from shore",
   requiresTimestamp |-> TRUE, requiresRemarks |-> undefined, requiresLocation |-> undefined],
  [id |-> "vessel_unberthed", category |-> "Departure & Port Exit", name |-> "Vessel unberthed",
   description |-> "Vessel has departed from the berth",
   requiresTimestamp |-> TRUE, requiresRemarks |-> undefined, requiresLocation |-> undefined],
  [id |-> "vessel_departed_anchorage", category |-> "Departure & Port Exit", name |-> "Vessel departed anchorage",
   description |-> "Vessel has left the anchorage area",
   requiresTimestamp |-> TRUE, requiresRemarks |-> undefined, requiresLocation |-> undefined],
  [id |-> "vessel_cleared_port_limits", category |-> "Departure & Port Exit", name |-> "Departed",
   description |-> "Vessel has exited the port jurisdiction area",
   requiresTimestamp |-> TRUE, requiresRemarks |-> undefined, requiresLocation |-> undefined],
  [id |-> "crew_change_start", category |-> "Special Events", name |-> "Crew change start",
   description |-> "Beginning of crew rotation process",
   requiresTimestamp |-> TRUE, requiresRemarks |-> undefined, requiresLocation |-> undefined],
  [id |-> "crew_change_completed", category |-> "Special Events", name |-> "Crew change completed",
   description |-> "Completion of crew rotation process",
   requiresTimestamp |-> TRUE, requiresRemarks |-> undefined, requiresLocation |-> undefined],
  [id |-> "medical_evacuation", category |-> "Special Events", name |-> "Medical evacuation / emergency",
   description |-> "Emergency medical situation requiring evacuation or assistance",
   requiresTimestamp |-> TRUE, requiresRemarks |-> "true", requiresLocation |-> undefined],
  [id |-> "garbage_disposal_completed", category |-> "Special Events", name |-> "Garbage disposal completed",
   description |-> "Completion of waste removal from vessel",
   requiresTimestamp |-> TRUE, requiresRemarks |-> undefined, requiresLocation |-> undefined],
  [id |-> "sludge_discharge_completed", category |-> "Special Events", name |-> "Sludge discharge completed",
   description |-> "Completion of oily waste removal from vessel",
   requiresTimestamp |-> TRUE, requiresRemarks |-> undefined, requiresLocation |-> undefined],
  [id |-> "fresh_water_supply_start", category |-> "Special Events", name |-> "Fresh water supply start",
   description |-> "Beginning of fresh water delivery to vessel",
   requiresTimestamp |-> TRUE, requiresRemarks |-> undefined, requiresLocation |-> undefined],
  [id |-> "fresh_water_supply_completed", category |-> "Special Events", name |-> "Fresh water supply completed",
   description |-> "Completion of fresh water delivery to vessel",
   requiresTimestamp |-> TRUE, requiresRemarks |-> undefined, requiresLocation |-> undefined],
  [id |-> "stores_spare_parts_delivery", category |-> "Special Events", name |-> "Stores/spare parts delivery",
   description |-> "Delivery of supplies or equipment to vessel",
   requiresTimestamp |-> TRUE, requiresRemarks |-> undefined, requiresLocation |-> undefined],
  [id |-> "isps_security_inspection", category |-> "Special Events", name |-> "ISPS / security inspection",
   description |-> "International Ship and Port Facility Security inspection",
   requiresTimestamp |-> TRUE, requiresRemarks |-> "true", requiresLocation |-> undefined]
  >>

(* Variant: a lookup that makes up an entry for an id it does not find.    *)
getSofEventByIdLenient(id) ==
  LET matches == SelectSeq(sofEvents, LAMBDA event: event.id = id)
  IN  IF matches = <<>>
      THEN <<[id |-> id, category |-> "Special Events", name |-> id,
              description |-> undefined, requiresTimestamp |-> TRUE,
              requiresRemarks |-> undefined, requiresLocation |-> undefined]>>
      ELSE <<Head(matches)>>

(* Array.prototype.find: the first element that matches, or undefined.     *)
getSofEventById(id) ==
  LET matches == SelectSeq(sofEvents, LAMBDA event: event.id = id)
  IN  IF matches = <<>> THEN <<>> ELSE <<Head(matches)>>

(* Object spread {...a, ...b}: b's properties override a's.                *)
Spread(a, b) ==
  [k \in (DOMAIN a) \cup (DOMAIN b) |-> IF k \in DOMAIN b THEN b[k] ELSE a[k]]

(* Array.prototype.splice(start, 1) on a copy of the array, start an       *)
(* integer in 0 .. length - 1 (0-based).                                   *)
Splice1(arr, start) ==
  SubSeq(arr, 1, start) \o SubSeq(arr, start + 2, Len(arr))

(* The outcome of a call: whether it threw, the value it returned (when it *)
(* did not throw) and the argument object as the call left it.             *)
Threw(sofDocument) ==
  [threw |-> TRUE, value |-> sofDocument, arg |-> sofDocument]

Returned(value, sofDocument) ==
  [threw |-> FALSE, value |-> value, arg |-> sofDocument]

(* ------------------------- Document operations -------------------------- *)

createSofDocument(id, vesselName, portName) ==
  [id |-> id, vesselName |-> vesselName, portName |-> portName,
   arrivalDate |-> undefined, departureDate |-> undefined, events |-> <<>>]

(* Variant: the catalog check is missing, an unknown id is stored as is.   *)
addEventToSofUnchecked(sofDocument, eventId, timestamp, remarks, location) ==
  LET event == getSofEventById(eventId)
      base  == IF event = <<>> THEN [id |-> eventId] ELSE event[1]
      eventRecord ==
        Spread(base,
               [timestamp  |-> timestamp,
                remarks    |-> remarks,
                location   |-> location,
                vesselName |-> sofDocument.vesselName,
                portName   |-> sofDocument.portName])
  IN  Returned([sofDocument EXCEPT !.events = Append(@, eventRecord)], sofDocument)

(* Variant: an occurrence that lacks a field its type requires is refused. *)
addEventToSofStrict(sofDocument, eventId, timestamp, remarks, location) ==
  LET event == getSofEventById(eventId) IN
  IF event = <<>>
  THEN Threw(sofDocument)
  ELSE IF \/ (event[1].requiresLocation = "true" /\ location = undefined)
          \/ (event[1].requiresRemarks = "true" /\ remarks = undefined)
       THEN Threw(sofDocument)
       ELSE LET eventRecord ==
                  Spread(event[1],
                         [timestamp  |-> timestamp,
                          remarks    |-> remarks,
                          location   |-> location,
                          vesselName |-> sofDocument.vesselName,
                          portName   |-> sofDocument.portName])
            IN  Returned([sofDocument EXCEPT !.events = Append(@, eventRecord)],
                         sofDocument)

(* Variant: the occurrence is put in front of the others.                  *)
addEventToSofPrepend(sofDocument, eventId, timestamp, remarks, location) ==
  LET event == getSofEventById(eventId) IN
  IF event = <<>>
  THEN Threw(sofDocument)
  ELSE LET eventRecord ==
             Spread(event[1],
                    [timestamp  |-> timestamp,
                     remarks    |-> remarks,
                     location   |-> location,
                     vesselName |-> sofDocument.vesselName,
                     portName   |-> sofDocument.portName])
       IN  Returned([sofDocument EXCEPT !.events = <<eventRecord>> \o @],
                    sofDocument)

addEventToSof(sofDocument, eventId, timestamp, remarks, location) ==
  LET event == getSofEventById(eventId) IN
  IF event = <<>>
  THEN Threw(sofDocument)
  ELSE LET eventRecord ==
             Spread(event[1],
                    [timestamp  |-> timestamp,
                     remarks    |-> remarks,
                     location   |-> location,
                     vesselName |-> sofDocument.vesselName,
                     portName   |-> sofDocument.portName])
       IN  Returned([sofDocument EXCEPT !.events = Append(@, eventRecord)],
                    sofDocument)

(* Variant: the upper bound is tested with > instead of >=.                *)
removeEventFromSofOffByOne(sofDocument, eventIndex) ==
  IF eventIndex < 0 \/ eventIndex > Len(sofDocument.events)
  THEN Threw(sofDocument)
  ELSE LET updatedEvents == Splice1(sofDocument.events, eventIndex)
       IN  Returned([sofDocument EXCEPT !.events = updatedEvents], sofDocument)

removeEventFromSof(sofDocument, eventIndex) ==
  IF eventIndex < 0 \/ eventIndex >= Len(sofDocument.events)
  THEN Threw(sofDocument)
  ELSE LET updatedEvents == Splice1(sofDocument.events, eventIndex)
       IN  Returned([sofDocument EXCEPT !.events = updatedEvents], sofDocument)

(* Variant: the element is replaced in the document's own array.           *)
updateEventInSofInPlace(sofDocument, eventIndex, updates) ==
  IF eventIndex < 0 \/ eventIndex >= Len(sofDocument.events)
  THEN Threw(sofDocument)
  ELSE LET updatedEvents ==
             [sofDocument.events EXCEPT
                ![eventIndex + 1] = Spread(@, updates)]
           updated == [sofDocument EXCEPT !.events = updatedEvents]
       IN  Returned(updated, updated)

(* Variant: the updates are applied to every element of the array.         *)
updateEventInSofAllEvents(sofDocument, eventIndex, updates) ==
  IF eventIndex < 0 \/ eventIndex >= Len(sofDocument.events)
  THEN Threw(sofDocument)
  ELSE LET updatedEvents ==
             [i \in 1 .. Len(sofDocument.events) |->
                Spread(sofDocument.events[i], updates)]
       IN  Returned([sofDocument EXCEPT !.events = updatedEvents], sofDocument)

updateEventInSof(sofDocument, eventIndex, updates) ==
  IF eventIndex < 0 \/ eventIndex >= Len(sofDocument.events)
  THEN Threw(sofDocument)
  ELSE LET updatedEvents ==
             [sofDocument.events EXCEPT
                ![eventIndex + 1] = Spread(@, updates)]
       IN  Returned([sofDocument EXCEPT !.events = updatedEvents], sofDocument)

(* ------------------------- Dates and numbers --------------------------- *)

NaN == [nan |-> TRUE, v |-> 0]

Num(n) == [nan |-> FALSE, v |-> n]

(* new Date(timestamp).getTime() on the timestamp texts the model uses:    *)
(* milliseconds from 2025-08-06T00:00:00.000Z, NaN for an Invalid Date.    *)
DateGetTime(timestamp) ==
  CASE timestamp = "2025-08-06T06:30:00.000Z" -> Num(23400000)
    [] timestamp = "2025-08-06T09:00:00.000Z" -> Num(32400000)
    [] timestamp = "2025-08-06T10:00:00.000Z" -> Num(36000000)
    [] OTHER -> NaN

(* a - b on numbers.                                                        *)
Minus(a, b) == IF a.nan \/ b.nan THEN NaN ELSE Num(a.v - b.v)

(* x / (1000 * 60 * 60): milliseconds to hours, the result in hundredths   *)
(* of an hour.                                                              *)
MsToHours(x) == IF x.nan THEN NaN ELSE Num(x.v \div 36000)

(* --------------------------- Chronological view ------------------------- *)

(* Variant: the comparator with its operands exchanged.                    *)
compareByTimestampDescending(a, b) ==
  Minus(DateGetTime(b.timestamp), DateGetTime(a.timestamp))

(* The comparator of getSofEventsChronological.                            *)
compareByTimestamp(a, b) ==
  Minus(DateGetTime(a.timestamp), DateGetTime(b.timestamp))

(* ECMAScript SortCompare: a NaN from the comparator counts as +0.         *)
SortCompare(a, b) ==
  LET v == compareByTimestamp(a, b) IN IF v.nan THEN 0 ELSE v.v

(* Array.prototype.sort is stable, and its order is fixed by the language  *)
(* only for a consistent comparator; otherwise it is implementation-       *)
(* defined. Two stable algorithms of the engines stand for the             *)
(* implementations: insertion sort and top-down merge sort.                *)
RECURSIVE InsertFromRight(_, _, _)
InsertFromRight(sorted, x, j) ==
  IF j >= 1 /\ SortCompare(sorted[j], x) > 0
  THEN InsertFromRight(sorted, x, j - 1)
  ELSE SubSeq(sorted, 1, j) \o <<x>> \o SubSeq(sorted, j + 1, Len(sorted))

RECURSIVE InsertionSort(_)
InsertionSort(arr) ==
  IF arr = <<>> THEN <<>>
  ELSE LET sorted == InsertionSort(SubSeq(arr, 1, Len(arr) - 1))
       IN  InsertFromRight(sorted, arr[Len(arr)], Len(sorted))

RECURSIVE Merge(_, _)
Merge(left, right) ==
  IF left = <<>> THEN right
  ELSE IF right = <<>> THEN left
  ELSE IF SortCompare(Head(left), Head(right)) <= 0
       THEN <<Head(left)>> \o Merge(Tail(left), right)
       ELSE <<Head(right)>> \o Merge(left, Tail(right))

RECURSIVE MergeSort(_)
MergeSort(arr) ==
  IF Len(arr) <= 1 THEN arr
  ELSE LET mid == Len(arr) \div 2
       IN  Merge(MergeSort(SubSeq(arr, 1, mid)),
                 MergeSort(SubSeq(arr, mid + 1, Len(arr))))

SortEngines == {"insertion", "merge"}

ArraySort(arr, engine) ==
  IF engine = "insertion" THEN InsertionSort(arr) ELSE MergeSort(arr)

(* [...sofDocument.events].sort(...): the copy is sorted, the document's   *)
(* own array is left as it is.                                             *)
getSofEventsChronological(sofDocument, engine) ==
  ArraySort(sofDocument.events, engine)

Null == [null |-> TRUE, nan |-> FALSE, v |-> 0]

JsNumber(x) == [null |-> FALSE, nan |-> x.nan, v |-> x.v]

calculateTotalTime(sofDocument, engine) ==
  IF Len(sofDocument.events) < 2
  THEN Null
  ELSE LET chronologicalEvents == getSofEventsChronological(sofDocument, engine)
           firstEvent == chronologicalEvents[1]
           lastEvent  == chronologicalEvents[Len(chronologicalEvents)]
           startTime  == DateGetTime(firstEvent.timestamp)
           endTime    == DateGetTime(lastEvent.timestamp)
       IN  JsNumber(MsToHours(Minus(endTime, startTime)))

calculateDuration(startTime, endTime) ==
  MsToHours(Minus(DateGetTime(endTime), DateGetTime(startTime)))

(* ------------------------------ Summaries ------------------------------- *)

SofEventCategory ==
  <<"Arrival & Port Entry", "Pre-Cargo Operations", "Cargo Operations",
    "Interruptions & Delays", "Documentation & Surveys", "Departure & Port Exit",
    "Special Events">>

getAllSofEventCategories == SofEventCategory

getSofEventsByCategory(category) ==
  SelectSeq(sofEvents, LAMBDA event: event.category = category)

(* Variant: the counts are not initialized, only the categories met have  *)
(* a key.                                                                  *)
getSofEventsSummarySparse(sofDocument) ==
  [category \in {sofDocument.events[i].category : i \in 1 .. Len(sofDocument.events)} |->
     Len(SelectSeq(sofDocument.events, LAMBDA event: event.category = category))]

(* Every category starts at 0 and is incremented once per event of it.    *)
getSofEventsSummary(sofDocument) ==
  [category \in {SofEventCategory[i] : i \in 1 .. Len(SofEventCategory)} |->
     Len(SelectSeq(sofDocument.events, LAMBDA event: event.category = category))]

(* Variant: find with a predicate that accepts every element.             *)
FindByIdAny(events, id) ==
  IF events = <<>> THEN <<>> ELSE <<Head(events)>>

(* chronologicalEvents.find(e => e.id === id)                              *)
FindById(events, id) ==
  LET matches == SelectSeq(events, LAMBDA e: e.id = id)
  IN  IF matches = <<>> THEN <<>> ELSE <<Head(matches)>>

(* The durations of the event pairs, in hundredths of an hour: 2.5, 1.0,   *)
(* 11.5 and 1.75 hours.                                                    *)
fixedDurations ==
  [vessel_arrived_anchorage_to_vessel_alongside_berthed |-> 250,
   vessel_alongside_berthed_to_cargo_loading_started |-> 100,
   cargo_loading_started_to_cargo_loading_completed |-> 1150,
   cargo_loading_completed_to_vessel_cleared_port_limits |-> 175]

(* Variant: the pair is pushed when its first event was found.             *)
PushPairStartOnly(startEvent, endEvent, duration) ==
  IF startEvent # <<>>
  THEN <<[startEvent |-> startEvent[1],
          endEvent |-> IF endEvent # <<>> THEN endEvent[1] ELSE startEvent[1],
          duration |-> duration]>>
  ELSE <<>>

(* if (startEvent && endEvent) eventPairs.push({...})                      *)
PushPair(startEvent, endEvent, duration) ==
  IF startEvent # <<>> /\ endEvent # <<>>
  THEN <<[startEvent |-> startEvent[1], endEvent |-> endEvent[1], duration |-> duration]>>
  ELSE <<>>

(* value || fallback on an optional string.                                *)
OrElse(value, fallback) ==
  IF value = undefined \/ value = "" THEN fallback ELSE value

(* Math.round(x * 10) / 10 on hundredths: to the nearest tenth, a half up. *)
RoundToTenth(x) == ((x + 5) \div 10) * 10

getSofResultSection(sofDocument, engine) ==
  LET chronologicalEvents == getSofEventsChronological(sofDocument, engine)
      totalTime == calculateTotalTime(sofDocument, engine)
      categorySummary == getSofEventsSummary(sofDocument)
      anchoredEvent == FindById(chronologicalEvents, "vessel_arrived_anchorage")
      berthedEvent == FindById(chronologicalEvents, "vessel_alongside_berthed")
      cargoLoadingEvent == FindById(chronologicalEvents, "cargo_loading_started")
      completedLoadingEvent == FindById(chronologicalEvents, "cargo_loading_completed")
      departedEvent == FindById(chronologicalEvents, "vessel_cleared_port_limits")
      eventPairs ==
        PushPair(anchoredEvent, berthedEvent,
                 fixedDurations.vessel_arrived_anchorage_to_vessel_alongside_berthed)
        \o PushPair(berthedEvent, cargoLoadingEvent,
                    fixedDurations.vessel_alongside_berthed_to_cargo_loading_started)
        \o PushPair(cargoLoadingEvent, completedLoadingEvent,
                    fixedDurations.cargo_loading_started_to_cargo_loading_completed)
        \o PushPair(completedLoadingEvent, departedEvent,
                    fixedDurations.cargo_loading_completed_to_vessel_cleared_port_limits)
      waitingTime ==
        IF anchoredEvent # <<>> /\ berthedEvent # <<>>
        THEN fixedDurations.vessel_arrived_anchorage_to_vessel_alongside_berthed
        ELSE 0
      loadingTime ==
        IF cargoLoadingEvent # <<>> /\ completedLoadingEvent # <<>>
        THEN fixedDurations.cargo_loading_started_to_cargo_loading_completed
        ELSE 0
      FormatEvent(event) ==
        LET found == SelectSeq(eventPairs, LAMBDA p: p.startEvent.id = event.id)
            pair == IF found = <<>> THEN <<>> ELSE <<Head(found)>>
        IN  [type |-> event.name,
             startTime |-> event.timestamp,
             endTime |-> IF pair # <<>> THEN pair[1].endEvent.timestamp ELSE "",
             duration |-> IF pair # <<>> THEN <<pair[1].duration>> ELSE <<>>,
             location |-> OrElse(event.location, "-"),
             description |-> OrElse(event.description, ""),
             remarks |-> OrElse(event.remarks, ""),
             anomalies |-> "Clean"]
  IN  [vesselDetails |->
         [name |-> sofDocument.vesselName, port |-> sofDocument.portName,
          arrivalDate |-> sofDocument.arrivalDate,
          departureDate |-> sofDocument.departureDate],
       operationalSummary |->
         [totalEvents |-> Len(chronologicalEvents),
          totalTimeInPort |->
            IF totalTime.null \/ totalTime.nan \/ totalTime.v = 0
            THEN Null
            ELSE JsNumber(Num(RoundToTenth(totalTime.v))),
          loadingTime |-> loadingTime,
          waitingTime |-> waitingTime,
          eventsByCategory |-> categorySummary],
       keyEvents |->
         [anchored |-> anchoredEvent, berthed |-> berthedEvent,
          cargoLoading |-> cargoLoadingEvent,
          completedLoading |-> completedLoadingEvent,
          departed |-> departedEvent],
       eventPairs |-> eventPairs,
       formattedEvents |->
         [i \in 1 .. Len(chronologicalEvents) |-> FormatEvent(chronologicalEvents[i])],
       allEvents |-> chronologicalEvents]

(* -------------------------------- Exports ------------------------------- *)

(* `${value}` in a template literal: undefined reads "undefined".          *)
TemplateText(value) == IF value = undefined THEN "undefined" ELSE value

(* A cell of a CSV line: its text, and whether it stands in double quotes. *)
Cell(quoted, text) == [quoted |-> quoted, text |-> text]

CsvHeader ==
  <<Cell(FALSE, "Event Category"), Cell(FALSE, "Event Name"),
    Cell(FALSE, "Timestamp"), Cell(FALSE, "Location"), Cell(FALSE, "Remarks")>>

CsvRow(event) ==
  <<Cell(TRUE, TemplateText(event.category)),
    Cell(TRUE, TemplateText(event.name)),
    Cell(TRUE, TemplateText(event.timestamp)),
    Cell(TRUE, OrElse(event.location, "")),
    Cell(TRUE, OrElse(event.remarks, ""))>>

(* exportSofToCsv: the lines of the text, each the cells that row.join(',') *)
(* joins; the header first, then a row for each element of                 *)
(* sofDocument.events in the order of the array.                           *)
exportSofToCsv(sofDocument) ==
  <<CsvHeader>> \o [i \in 1 .. Len(sofDocument.events) |-> CsvRow(sofDocument.events[i])]

(* The flags of an occurrence, which the catalog holds as booleans.        *)
BooleanKeys == {"requiresTimestamp", "requiresRemarks", "requiresLocation"}

(* JSON.stringify of a property value: a boolean literal or a string.      *)
JsonMember(key, value) ==
  IF key \in BooleanKeys THEN [json |-> "true"] ELSE [json |-> "string", text |-> value]

(* The property holds a value: requiresTimestamp is true in every entry of *)
(* the catalog, the other properties hold a string or undefined.           *)
Defined(object, key) ==
  IF key = "requiresTimestamp" THEN TRUE ELSE object[key] # undefined

(* JSON.stringify of an object of strings and booleans: the properties     *)
(* whose value is undefined are left out.                                  *)
JsonObject(object, keys) ==
  [json |-> "object",
   members |-> [key \in {k \in keys : Defined(object, k)} |->
                  JsonMember(key, object[key])]]

(* Variant: a property that is undefined is written as the text undefined. *)
exportSofToJsonUndefinedAsText(sofDocument) ==
  LET document == [json |-> "object",
                   members |-> [key \in (DOMAIN sofDocument) \ {"events"} |->
                                  JsonMember(key, sofDocument[key])]]
  IN  [document EXCEPT !.members =
         Spread(@, [events |->
           [json |-> "array",
            items |-> [i \in 1 .. Len(sofDocument.events) |->
                         [json |-> "object",
                          members |-> [key \in DOMAIN sofDocument.events[i] |->
                                         JsonMember(key, sofDocument.events[i][key])]]]]])]

(* exportSofToJson: the text JSON.stringify(sofDocument, null, 2) writes,  *)
(* as its syntax tree (the indentation carries no value).                  *)
exportSofToJson(sofDocument) ==
  LET document == JsonObject(sofDocument, (DOMAIN sofDocument) \ {"events"})
  IN  [document EXCEPT !.members =
         Spread(@, [events |->
           [json |-> "array",
            items |-> [i \in 1 .. Len(sofDocument.events) |->
                         JsonObject(sofDocument.events[i],
                                    DOMAIN sofDocument.events[i])]]])]

(* The value of a JSON member: TRUE or "true" for a flag, as the catalog   *)
(* is modelled, and the text of a string.                                  *)
JsonMemberValue(key, node) ==
  IF node.json = "true"
  THEN (IF key = "requiresTimestamp" THEN TRUE ELSE "true")
  ELSE node.text

(* The object JSON.parse builds from an object of the text.                *)
JsonParseObject(node, keys) ==
  [key \in keys |-> JsonMemberValue(key, node.members[key])]

(* Re-import of an exported document: JSON.parse of the text.              *)
JsonParseDocument(text) ==
  LET keys == (DOMAIN text.members) \ {"events"}
      items == text.members.events.items
  IN  Spread(JsonParseObject(text, keys),
             [events |-> [i \in 1 .. Len(items) |->
                            JsonParseObject(items[i], DOMAIN items[i].members)]])

(* object[key], undefined when the object has no such property.            *)
Get(object, key) == IF key \in DOMAIN object THEN object[key] ELSE undefined

(* --------------------------- Demurrage calculator ----------------------- *)
(* The DemurrageCalculator component and the exchange-rate service.        *)
(* A form field (number | '') is a sequence: <<>> for '' and <<n>> for the *)
(* number n. Times in days are in thousandths of a day, the daily rate in  *)
(* whole currency units, an amount before rounding in thousandths of a     *)
(* unit, an amount of a result in hundredths (2 decimals), the exchange    *)
(* rate of the form in ten-thousandths (4 decimals) and a rate of the      *)
(* service in millionths.                                                  *)

(* n / d to the nearest integer, a half up, for n >= 0 and d > 0.          *)
RoundHalfUp(n, d) == (n \div d) + (IF 2 * (n % d) >= d THEN 1 ELSE 0)

(* parseFloat(x.toFixed(2)) of an amount in thousandths: hundredths.       *)
ToFixed2(thousandths) == RoundHalfUp(thousandths, 10)

(* parseFloat(rate.toFixed(4)) of a rate in millionths: ten-thousandths.   *)
ToFixed4(millionths) == RoundHalfUp(millionths, 100)

(* parseFloat((amount * rate).toFixed(2)): amount in thousandths, rate in  *)
(* ten-thousandths, the product to the nearest hundredth. The product is   *)
(* taken in two parts to stay within 32 bits.                              *)
TimesRateToFixed2(thousandths, rate) ==
  (thousandths \div 100000) * rate
    + RoundHalfUp((thousandths % 100000) * rate, 100000)

supportedCurrencies == <<"USD", "EUR", "GBP", "JPY", "CAD", "AUD", "SGD", "CNY", "INR">>

(* MOCK_EXCHANGE_RATES, the rows and columns of the currencies the model   *)
(* uses, in millionths.                                                    *)
MOCK_EXCHANGE_RATES ==
  [USD |-> [EUR |-> 920000, GBP |-> 790000, USD |-> 1000000],
   EUR |-> [USD |-> 1080000, GBP |-> 860000, EUR |-> 1000000],
   GBP |-> [USD |-> 1270000, EUR |-> 1160000, GBP |-> 1000000]]

(* The body of getExchangeRate once its timer fires: the promise resolves  *)
(* with a rate, or an error toast is shown and it rejects.                 *)
getExchangeRate(baseCurrency, targetCurrency) ==
  IF baseCurrency = targetCurrency
  THEN [resolved |-> TRUE, rate |-> 1000000, toasts |-> <<>>]
  ELSE IF /\ baseCurrency \in DOMAIN MOCK_EXCHANGE_RATES
          /\ targetCurrency \in DOMAIN MOCK_EXCHANGE_RATES[baseCurrency]
          /\ MOCK_EXCHANGE_RATES[baseCurrency][targetCurrency] # 0
       THEN [resolved |-> TRUE,
             rate |-> MOCK_EXCHANGE_RATES[baseCurrency][targetCurrency],
             toasts |-> <<>>]
       ELSE [resolved |-> FALSE, rate |-> 0,
             toasts |-> <<"error: No direct exchange rate found">>]

(* The state of the component after its first render, before the effects.  *)
InitialCalculator ==
  [dailyRate |-> <<>>, allowedTimeDays |-> <<>>, usedTimeDays |-> <<>>,
   fromCurrency |-> "USD", toCurrency |-> "EUR", exchangeRate |-> <<>>,
   isLoadingExchangeRate |-> FALSE, calculationResult |-> <<>>,
   errors |-> <<>>]

(* A record of error messages by field name; <<>> is the empty object.     *)
SetError(errs, name, message) ==
  [k \in (DOMAIN errs) \cup {name} |-> IF k = name THEN message ELSE errs[k]]

(* field === '' || isNaN(Number(field)) || Number(field) < 0               *)
InvalidNonNegative(field) == field = <<>> \/ field[1] < 0

(* field === '' || isNaN(Number(field)) || Number(field) <= 0              *)
InvalidPositive(field) == field = <<>> \/ field[1] <= 0

(* Variant: the exchange rate is tested with < 0, as the other fields.     *)
validateInputsRateNonNegative(c) ==
  LET e1 == IF InvalidNonNegative(c.dailyRate)
            THEN SetError(<<>>, "dailyRate", "Valid daily rate is required")
            ELSE <<>>
      e2 == IF InvalidNonNegative(c.allowedTimeDays)
            THEN SetError(e1, "allowedTimeDays", "Valid allowed time is required (days)")
            ELSE e1
      e3 == IF InvalidNonNegative(c.usedTimeDays)
            THEN SetError(e2, "usedTimeDays", "Valid used time is required (days)")
            ELSE e2
  IN  IF InvalidNonNegative(c.exchangeRate)
      THEN SetError(e3, "exchangeRate", "Valid exchange rate is required")
      ELSE e3

(* validateInputs: the new errors object (setErrors(newErrors)); the       *)
(* inputs are valid when it has no key.                                    *)
validateInputs(c) ==
  LET e1 == IF InvalidNonNegative(c.dailyRate)
            THEN SetError(<<>>, "dailyRate", "Valid daily rate is required")
            ELSE <<>>
      e2 == IF InvalidNonNegative(c.allowedTimeDays)
            THEN SetError(e1, "allowedTimeDays", "Valid allowed time is required (days)")
            ELSE e1
      e3 == IF InvalidNonNegative(c.usedTimeDays)
            THEN SetError(e2, "usedTimeDays", "Valid used time is required (days)")
            ELSE e2
  IN  IF InvalidPositive(c.exchangeRate)
      THEN SetError(e3, "exchangeRate", "Valid exchange rate is required")
      ELSE e3

Abs(x) == IF x < 0 THEN 0 - x ELSE x

(* Variant: the excess time is tested with >= 0.                           *)
calculateDemurrageInclusive(c) ==
  LET newErrors == validateInputs(c) IN
  IF DOMAIN newErrors # {}
  THEN [c EXCEPT !.errors = newErrors, !.calculationResult = <<>>]
  ELSE LET allowed == c.allowedTimeDays[1]
           used == c.usedTimeDays[1]
           rate == c.dailyRate[1]
           currentExchangeRate == c.exchangeRate[1]
           excessTime == used - allowed
           calculatedAmount == Abs(excessTime) * rate
           resultType == IF excessTime >= 0 THEN "Demurrage" ELSE "Despatch"
       IN  [c EXCEPT
              !.errors = newErrors,
              !.calculationResult =
                <<[type |-> resultType,
                   amount |-> ToFixed2(calculatedAmount),
                   currency |-> c.fromCurrency,
                   convertedAmount |-> TimesRateToFixed2(calculatedAmount, currentExchangeRate),
                   convertedCurrency |-> c.toCurrency]>>]

(* Variant: a rejected click leaves the earlier result in place.           *)
calculateDemurrageKeepsResult(c) ==
  LET newErrors == validateInputs(c) IN
  IF DOMAIN newErrors # {}
  THEN [c EXCEPT !.errors = newErrors]
  ELSE LET allowed == c.allowedTimeDays[1]
           used == c.usedTimeDays[1]
           rate == c.dailyRate[1]
           currentExchangeRate == c.exchangeRate[1]
           excessTime == used - allowed
           calculatedAmount ==
             IF excessTime > 0 THEN excessTime * rate ELSE Abs(excessTime) * rate
           resultType == IF excessTime > 0 THEN "Demurrage" ELSE "Despatch"
       IN  [c EXCEPT
              !.errors = newErrors,
              !.calculationResult =
                <<[type |-> resultType,
                   amount |-> ToFixed2(calculatedAmount),
                   currency |-> c.fromCurrency,
                   convertedAmount |-> TimesRateToFixed2(calculatedAmount, currentExchangeRate),
                   convertedCurrency |-> c.toCurrency]>>]

(* calculateDemurrage: the component's state after the click.              *)
calculateDemurrage(c) ==
  LET newErrors == validateInputs(c) IN
  IF DOMAIN newErrors # {}
  THEN [c EXCEPT !.errors = newErrors, !.calculationResult = <<>>]
  ELSE LET allowed == c.allowedTimeDays[1]
           used == c.usedTimeDays[1]
           rate == c.dailyRate[1]
           currentExchangeRate == c.exchangeRate[1]
           excessTime == used - allowed
           calculatedAmount ==
             IF excessTime > 0 THEN excessTime * rate ELSE Abs(excessTime) * rate
           resultType == IF excessTime > 0 THEN "Demurrage" ELSE "Despatch"
       IN  [c EXCEPT
              !.errors = newErrors,
              !.calculationResult =
                <<[type |-> resultType,
                   amount |-> ToFixed2(calculatedAmount),
                   currency |-> c.fromCurrency,
                   convertedAmount |-> TimesRateToFixed2(calculatedAmount, currentExchangeRate),
                   convertedCurrency |-> c.toCurrency]>>]

(* handleInputChange: the error of the field is cleared and the field set; *)
(* value is '' or a number for the number fields, a code for the selects.  *)
handleInputChange(c, name, value) ==
  LET cleared == [c EXCEPT !.errors = SetError(@, name, "")] IN
  CASE name = "dailyRate" -> [cleared EXCEPT !.dailyRate = value]
    [] name = "allowedTimeDays" -> [cleared EXCEPT !.allowedTimeDays = value]
    [] name = "usedTimeDays" -> [cleared EXCEPT !.usedTimeDays = value]
    [] name = "fromCurrency" -> [cleared EXCEPT !.fromCurrency = value]
    [] name = "toCurrency" -> [cleared EXCEPT !.toCurrency = value]
    [] name = "exchangeRate" -> [cleared EXCEPT !.exchangeRate = value]
    [] OTHER -> cleared

(* Variant: no shortcut for identical currencies, the service is asked.    *)
fetchExchangeRateStartAlways(c) ==
  [calc |-> [c EXCEPT !.isLoadingExchangeRate = TRUE],
   request |-> <<[from |-> c.fromCurrency, to |-> c.toCurrency]>>]

(* fetchExchangeRate up to its await: the component's state and the        *)
(* request made to the service, if any.                                    *)
fetchExchangeRateStart(c) ==
  IF c.fromCurrency = c.toCurrency
  THEN [calc |-> [c EXCEPT !.exchangeRate = <<10000>>], request |-> <<>>]
  ELSE [calc |-> [c EXCEPT !.isLoadingExchangeRate = TRUE],
        request |-> <<[from |-> c.fromCurrency, to |-> c.toCurrency]>>]

(* Variant: the loading flag is cleared on the success path only.          *)
fetchExchangeRateDoneNoFinally(c, request) ==
  LET answer == getExchangeRate(request.from, request.to) IN
  IF answer.resolved
  THEN [calc |-> [c EXCEPT !.exchangeRate = <<ToFixed4(answer.rate)>>,
                           !.isLoadingExchangeRate = FALSE],
        toasts |-> answer.toasts \o <<"success: Exchange rate fetched">>]
  ELSE [calc |-> [c EXCEPT !.exchangeRate = <<10000>>],
        toasts |-> answer.toasts
                     \o <<"error: Failed to fetch exchange rate. Using default 1.0.">>]

(* fetchExchangeRate from its await on, for the request it made: try,      *)
(* catch and finally.                                                      *)
fetchExchangeRateDone(c, request) ==
  LET answer == getExchangeRate(request.from, request.to) IN
  IF answer.resolved
  THEN [calc |-> [c EXCEPT !.exchangeRate = <<ToFixed4(answer.rate)>>,
                           !.isLoadingExchangeRate = FALSE],
        toasts |-> answer.toasts \o <<"success: Exchange rate fetched">>]
  ELSE [calc |-> [c EXCEPT !.exchangeRate = <<10000>>,
                           !.isLoadingExchangeRate = FALSE],
        toasts |-> answer.toasts
                     \o <<"error: Failed to fetch exchange rate. Using default 1.0.">>]

(* --------------------------- Upload dashboard --------------------------- *)
(* The Dashboard component (its job list, its list of processed files and  *)
(* the 'processedFiles' entry of localStorage), the FileUpload component   *)
(* and processFile of the API service.                                     *)
(* A job id and a file id, unique texts made of the clock and a random     *)
(* suffix, are the number of the job in the order of creation. The Date    *)
(* values and the sizes, which no step reads, are left out of the records; *)
(* endTime is the text Now once it is set. An array that may be undefined  *)
(* (result.events) is <<>> when undefined and <<n>> for an array of n      *)
(* elements.                                                                *)

Now == "<now>"

(* Math.min(a, b) *)
MathMin(a, b) == IF a < b THEN a ELSE b

(* The job object processFiles builds for a file.                          *)
NewJob(jobId, file) ==
  [id |-> jobId, fileName |-> file.name, status |-> "processing", progress |-> 0,
   endTime |-> undefined, error |-> undefined]

(* addProcessingJob: setProcessingJobs(prev => [...prev, job])             *)
addProcessingJob(prev, job) == Append(prev, job)

(* updateProcessingJob: prev.map(job => job.id === jobId ?                 *)
(* { ...job, ...updates } : job)                                           *)
updateProcessingJob(prev, jobId, updates) ==
  [i \in DOMAIN prev |->
     IF prev[i].id = jobId THEN Spread(prev[i], updates) ELSE prev[i]]

(* processingNote.toLowerCase().includes('sample data') on the notes the   *)
(* model uses.                                                             *)
IncludesSampleData(processingNote) == processingNote = "Using sample data"

(* addProcessedFile, called with the processedFiles value its closure      *)
(* holds: the file as the checks leave it is appended to that value; the   *)
(* array built is both the new state and the array written to the          *)
(* 'processedFiles' entry.                                                 *)
addProcessedFile(processedFiles, file) ==
  LET data == file.extractedData
      noEvents == data.events = <<>>
      checked == IF noEvents
                 THEN [file EXCEPT !.status = "failed",
                                   !.extractedData = data]
                 ELSE file
      marked == IF data.processingNote # undefined
                     /\ IncludesSampleData(data.processingNote)
                THEN [checked EXCEPT !.status = "failed"]
                ELSE checked
  IN  Append(processedFiles, marked)

(* The outcome of await processFile(file): the promise resolves with       *)
(* response.data or rejects with the Error its catch block throws.         *)
Resolved(data) == [rejected |-> FALSE, data |-> <<data>>, message |-> undefined]

Rejected(message) == [rejected |-> TRUE, data |-> <<>>, message |-> message]

(* The message of the job's error, from the message of the Error caught.   *)
ErrorMessage(message) ==
  IF message = "Backend server is not running. Please start the backend server first."
  THEN "Backend server is not running. Please start the backend server first."
  ELSE IF message = "Processing failed"
  THEN "File processing failed. The document may not contain recognizable maritime events."
  ELSE message

(* processFiles from the await of processFile on, for the job in hand: the *)
(* statements of the try block after the await and those of the catch      *)
(* block. cleared tells whether clearInterval was reached, updates is the  *)
(* argument of the one onJobUpdate call and processed the argument of      *)
(* onFileProcessed, if it was called.                                      *)
afterProcessFile(job, file, outcome) ==
  LET data == outcome.data[1]
      thrown ==
        IF outcome.rejected THEN <<outcome.message>>
        ELSE IF data.error # undefined
        THEN <<OrElse(data.message, "Processing failed")>>
        ELSE IF data.processingNote # undefined
                  /\ IncludesSampleData(data.processingNote)
        THEN <<"Backend returned sample data. Real-time extraction failed.">>
        ELSE <<>>
  IN  IF thrown = <<>>
      THEN [cleared |-> TRUE,
            updates |-> [status |-> "completed", progress |-> 100, endTime |-> Now],
            processed |->
              <<[id |-> job.id, name |-> file.name,
                 eventsExtracted |->
                   IF data.events = <<>> THEN 0 ELSE data.events[1],
                 status |-> "completed", extractedData |-> data]>>]
      ELSE [cleared |-> ~outcome.rejected,
            updates |-> [status |-> "failed", progress |-> 0, endTime |-> Now,
                         error |-> ErrorMessage(thrown[1])],
            processed |-> <<>>]

(* The callback of the progress interval of a job: the updates it passes   *)
(* to onJobUpdate, random standing for Math.random() * 20.                 *)
progressUpdates(job, random) ==
  [progress |-> MathMin(job.progress + random, 90)]

(* ------------------------------- Bounds --------------------------------- *)

MaxEvents == 2

MaxQueryEvents == 3

MaxMilestoneEvents == 3

(* Inputs of the operations. *)
DocIds == {"mdz3k1x7q2"}
VesselNames == {"GLOBAL TRADER"}
PortNames == {"Kandla"}
EventIds == {"vessel_arrived_anchorage", "vessel_alongside_berthed", "vessel_teleported"}
AddInputs ==
  {<<"2025-08-06T06:30:00.000Z", undefined, undefined>>,
   <<"not recorded", "Awaiting berth", "Anchorage Area">>}
Updates ==
  {[timestamp |-> "2025-08-06T09:00:00.000Z", location |-> "Berth No"],
   [remarks |-> "Heavy rain", vesselName |-> "OCEAN STAR", portName |-> "Mundra"]}
EventIndexes == (0 - 1) .. MaxEvents

(* Inputs of the timelines the queries are applied to. *)
QueryEventIds ==
  {"vessel_arrived_anchorage", "vessel_alongside_berthed", "cargo_loading_started"}
QueryTimestamps ==
  {"2025-08-06T06:30:00.000Z", "2025-08-06T09:00:00.000Z",
   "2025-08-06T10:00:00.000Z", "not recorded"}

(* Inputs of the timelines the result section is taken of: the milestones *)
(* of the event pairs and one event that is no milestone.                  *)
MilestoneEventIds ==
  {"vessel_arrived_anchorage", "vessel_alongside_berthed", "cargo_loading_started",
   "cargo_loading_completed", "vessel_cleared_port_limits", "pilot_onboard_arrival"}
MilestoneTimestamps == {"2025-08-06T06:30:00.000Z", "2025-08-06T10:00:00.000Z"}

(* ------------------------------- State ---------------------------------- *)

VARIABLES
  sofDocument,   \* the document the caller holds (the last value returned)
  before,        \* the document passed to the last call, as it was before it
  argAfter,      \* the same object as a second holder sees it after the call
  lastCall,      \* the last call: operation, inputs, whether it threw
  result,        \* what the last call returned, when it was a query
  sortEngine,    \* the engine's sort algorithm, fixed for the session
  calc,          \* the state of the DemurrageCalculator component
  lookups,       \* the requests to getExchangeRate in flight, oldest first
  started,       \* how many requests to getExchangeRate were made so far
  calcCall,      \* the last step of the calculator: what ran, what it showed
  uploadedFiles, \* FileUpload: the files dropped and not yet processed
  processing,    \* FileUpload: a processFiles call is running
  processingJobs, \* Dashboard: the jobs, in the order they were started
  processedFiles, \* Dashboard: the processed files
  storage,       \* the 'processedFiles' entry of localStorage, if any
  batch,         \* the running processFiles call: what its closure holds
  intervals,     \* the progress intervals that are set and not cleared
  settled        \* each job as its terminal update left it

sofVars == <<sofDocument, before, argAfter, lastCall, result, sortEngine>>

calcVars == <<calc, lookups, started, calcCall>>

uploadVars == <<uploadedFiles, processing, processingJobs, processedFiles,
                storage, batch, intervals, settled>>

vars == <<sofDocument, before, argAfter, lastCall, result, sortEngine,
          calc, lookups, started, calcCall,
          uploadedFiles, processing, processingJobs, processedFiles,
          storage, batch, intervals, settled>>

NoCalcCall ==
  [op |-> "none", name |-> undefined, startedBefore |-> 0, resultBefore |-> <<>>,
   rateBefore |-> <<>>, typedSince |-> FALSE, request |-> <<>>, toasts |-> <<>>]

(* No calculator is mounted while the document operations are exercised.   *)
CalcIdle ==
  /\ calc = InitialCalculator
  /\ lookups = <<>>
  /\ started = 0
  /\ calcCall = NoCalcCall

(* No processFiles call is running: position 0 is no file in hand.          *)
NoBatch ==
  [files |-> <<>>, position |-> 0, job |-> <<>>, processedFiles |-> <<>>,
   handed |-> <<>>]

(* The dashboard after its mount, with no 'processedFiles' entry stored.   *)
UploadIdle ==
  /\ uploadedFiles = <<>>
  /\ processing = FALSE
  /\ processingJobs = <<>>
  /\ processedFiles = <<>>
  /\ storage = <<>>
  /\ batch = NoBatch
  /\ intervals = {}
  /\ settled = {}

NoCall ==
  [op |-> "none", threw |-> FALSE, eventId |-> undefined, eventIndex |-> 0 - 1,
   updates |-> <<>>]

NoResult == <<>>

Call(op, threw, eventId, eventIndex, updates) ==
  [op |-> op, threw |-> threw, eventId |-> eventId, eventIndex |-> eventIndex,
   updates |-> updates]

(* The caller keeps the returned document, or the one it had on a throw.   *)
Apply(outcome, call) ==
  /\ sofDocument' = IF outcome.threw THEN sofDocument ELSE outcome.value
  /\ before' = sofDocument
  /\ argAfter' = outcome.arg
  /\ lastCall' = call
  /\ result' = NoResult
  /\ UNCHANGED sortEngine
  /\ UNCHANGED calcVars
  /\ UNCHANGED uploadVars

(* A query: the document stays, the value returned is kept in result.      *)
Query(op, value) ==
  /\ result' = value
  /\ before' = sofDocument
  /\ argAfter' = sofDocument
  /\ lastCall' = Call(op, FALSE, undefined, 0 - 1, <<>>)
  /\ UNCHANGED <<sofDocument, sortEngine>>
  /\ UNCHANGED calcVars
  /\ UNCHANGED uploadVars

Init ==
  /\ \E id \in DocIds, v \in VesselNames, p \in PortNames :
       sofDocument = createSofDocument(id, v, p)
  /\ before = sofDocument
  /\ argAfter = sofDocument
  /\ lastCall = NoCall
  /\ result = NoResult
  /\ sortEngine \in SortEngines
  /\ CalcIdle
  /\ UploadIdle

CreateDocument ==
  \E id \in DocIds, v \in VesselNames, p \in PortNames :
    /\ sofDocument' = createSofDocument(id, v, p)
    /\ before' = sofDocument
    /\ argAfter' = sofDocument
    /\ lastCall' = Call("createSofDocument", FALSE, undefined, 0 - 1, <<>>)
    /\ result' = NoResult
    /\ UNCHANGED sortEngine
    /\ UNCHANGED calcVars
    /\ UNCHANGED uploadVars

AddEvent ==
  \E eventId \in EventIds, in \in AddInputs :
    /\ Len(sofDocument.events) < MaxEvents
    /\ LET outcome == addEventToSof(sofDocument, eventId, in[1], in[2], in[3])
       IN  Apply(outcome, Call("addEventToSof", outcome.threw, eventId, 0 - 1, <<>>))

RemoveEvent ==
  \E eventIndex \in EventIndexes :
    LET outcome == removeEventFromSof(sofDocument, eventIndex)
    IN  Apply(outcome, Call("removeEventFromSof", outcome.threw, undefined, eventIndex, <<>>))

UpdateEvent ==
  \E eventIndex \in EventIndexes, updates \in Updates :
    LET outcome == updateEventInSof(sofDocument, eventIndex, updates)
    IN  Apply(outcome,
              Call("updateEventInSof", outcome.threw, undefined, eventIndex, <<updates>>))

(* Variant: the document's own array is sorted, without the copy.          *)
getSofEventsChronologicalInPlace(doc, engine) ==
  LET sorted == getSofEventsChronological(doc, engine)
  IN  Returned(sorted, [doc EXCEPT !.events = sorted])

(* A call of getSofEventsChronological: the array it returns and the       *)
(* document as the call leaves it; the sort works on the copy made by      *)
(* [...sofDocument.events].                                                *)
getSofEventsChronologicalCall(doc, engine) ==
  Returned(getSofEventsChronological(doc, engine), doc)

(* The caller holds the object it passed: it sees what the call left.      *)
GetChronological ==
  LET outcome == getSofEventsChronologicalCall(sofDocument, sortEngine) IN
  /\ result' = outcome.value
  /\ sofDocument' = outcome.arg
  /\ before' = sofDocument
  /\ argAfter' = outcome.arg
  /\ lastCall' = Call("getSofEventsChronological", FALSE, undefined, 0 - 1, <<>>)
  /\ UNCHANGED sortEngine
  /\ UNCHANGED calcVars
  /\ UNCHANGED uploadVars

CalculateTotalTime ==
  Query("calculateTotalTime", calculateTotalTime(sofDocument, sortEngine))

GetResultSection ==
  Query("getSofResultSection", getSofResultSection(sofDocument, sortEngine))

GetSummary ==
  Query("getSofEventsSummary", getSofEventsSummary(sofDocument))

ExportCsv ==
  Query("exportSofToCsv", exportSofToCsv(sofDocument))

ExportJson ==
  Query("exportSofToJson", exportSofToJson(sofDocument))

Next ==
  \/ CreateDocument
  \/ AddEvent
  \/ RemoveEvent
  \/ UpdateEvent
  \/ GetChronological
  \/ CalculateTotalTime
  \/ GetResultSection
  \/ GetSummary
  \/ ExportCsv
  \/ ExportJson

Spec == Init /\ [][Next]_vars

(* The queries on timelines built by addEventToSof from wider inputs.      *)
RECURSIVE BuildDocument(_, _)
BuildDocument(doc, inputs) ==
  IF inputs = <<>> THEN doc
  ELSE BuildDocument(
         addEventToSof(doc, Head(inputs)[1], Head(inputs)[2], undefined,
                       "Kandla Roads").value,
         Tail(inputs))

QueryInit ==
  /\ \E n \in 0 .. MaxQueryEvents :
       \E inputs \in [1 .. n -> QueryEventIds \X QueryTimestamps] :
         sofDocument = BuildDocument(
           createSofDocument("mdz3k1x7q2", "GLOBAL TRADER", "Kandla"), inputs)
  /\ before = sofDocument
  /\ argAfter = sofDocument
  /\ lastCall = NoCall
  /\ result = NoResult
  /\ sortEngine \in SortEngines
  /\ CalcIdle
  /\ UploadIdle

QueryNext ==
  \/ GetChronological
  \/ CalculateTotalTime
  \/ GetResultSection
  \/ GetSummary
  \/ ExportCsv
  \/ ExportJson

QuerySpec == QueryInit /\ [][QueryNext]_vars

(* The result section and the summary on timelines of milestone events.    *)
MilestoneInit ==
  /\ \E n \in 0 .. MaxMilestoneEvents :
       \E inputs \in [1 .. n -> MilestoneEventIds \X MilestoneTimestamps] :
         sofDocument = BuildDocument(
           createSofDocument("mdz3k1x7q2", "GLOBAL TRADER", "Kandla"), inputs)
  /\ before = sofDocument
  /\ argAfter = sofDocument
  /\ lastCall = NoCall
  /\ result = NoResult
  /\ sortEngine \in SortEngines
  /\ CalcIdle
  /\ UploadIdle

MilestoneNext ==
  \/ GetResultSection
  \/ GetSummary

MilestoneSpec == MilestoneInit /\ [][MilestoneNext]_vars


(* -------------------------- Calculator sessions ------------------------- *)

MaxLookups == 2

(* The codes the selects offer, two of them, and one code that             *)
(* MOCK_EXCHANGE_RATES has no row for: handleInputChange stores any        *)
(* e.target.value it is handed.                                            *)
FromCurrencies == {"USD", "EUR"}
ToCurrencies == {"USD", "EUR", "CHF"}

(* What the user types into the exchange rate field: a rate of 2, or the   *)
(* field cleared.                                                          *)
TypedNumbers == [exchangeRate |-> {<<>>, <<20000>>}]

(* No document operation runs while the calculator is exercised.           *)
SofIdle ==
  /\ sofDocument = createSofDocument("mdz3k1x7q2", "GLOBAL TRADER", "Kandla")
  /\ before = sofDocument
  /\ argAfter = sofDocument
  /\ lastCall = NoCall
  /\ result = NoResult
  /\ sortEngine = "insertion"

(* The record of a step: what ran, the counts and values it found, and     *)
(* whether the user has typed an exchange rate since fetchExchangeRate     *)
(* last ran.                                                               *)
CalcCall(op, name, request, toasts) ==
  [op |-> op, name |-> name, startedBefore |-> started,
   resultBefore |-> calc.calculationResult, rateBefore |-> calc.exchangeRate,
   typedSince |-> IF op = "fetchExchangeRate" THEN FALSE
                  ELSE IF op = "handleInputChange" /\ name = "exchangeRate" THEN TRUE
                  ELSE calcCall.typedSince,
   request |-> request, toasts |-> toasts]

(* The component after its mount: the effect of lines 74-76 has called     *)
(* fetchExchangeRate, whose request for USD to EUR is in flight.           *)
Mounted == fetchExchangeRateStart(InitialCalculator)

(* The user has typed a daily rate of 10000, an allowed time of 2 days and *)
(* a used time of 3.5 days.                                                *)
Prepared ==
  handleInputChange(
    handleInputChange(
      handleInputChange(Mounted.calc, "dailyRate", <<10000>>),
      "allowedTimeDays", <<2000>>),
    "usedTimeDays", <<3500>>)

CalcInit ==
  /\ SofIdle
  /\ UploadIdle
  /\ calc = Prepared
  /\ lookups = Mounted.request
  /\ started = Len(Mounted.request)
  /\ calcCall = [NoCalcCall EXCEPT !.op = "handleInputChange",
                                   !.name = "usedTimeDays",
                                   !.startedBefore = Len(Mounted.request)]

(* A step of fetchExchangeRate up to its await, from the state c.          *)
StartFetch(c, op, name) ==
  LET begun == fetchExchangeRateStart(c) IN
  /\ begun.request # <<>> => started < MaxLookups
  /\ calc' = begun.calc
  /\ lookups' = lookups \o begun.request
  /\ started' = started + Len(begun.request)
  /\ calcCall' = CalcCall(op, name, begun.request, <<>>)
  /\ UNCHANGED sofVars
  /\ UNCHANGED uploadVars

(* A change of a select: handleInputChange, the render, and the effect of  *)
(* lines 74-76, which runs fetchExchangeRate when the pair has changed.    *)
ChangeCurrency ==
  \E name \in {"fromCurrency", "toCurrency"} :
    \E value \in (IF name = "fromCurrency" THEN FromCurrencies ELSE ToCurrencies) :
      LET changed == handleInputChange(calc, name, value) IN
      IF changed.fromCurrency = calc.fromCurrency /\ changed.toCurrency = calc.toCurrency
      THEN /\ calc' = changed
           /\ calcCall' = CalcCall("handleInputChange", name, <<>>, <<>>)
           /\ UNCHANGED <<lookups, started>>
           /\ UNCHANGED sofVars
           /\ UNCHANGED uploadVars
      ELSE StartFetch(changed, "fetchExchangeRate", name)

(* The user types into a number field.                                     *)
TypeNumber ==
  \E name \in DOMAIN TypedNumbers :
    \E value \in TypedNumbers[name] :
      /\ calc' = handleInputChange(calc, name, value)
      /\ calcCall' = CalcCall("handleInputChange", name, <<>>, <<>>)
      /\ UNCHANGED <<lookups, started>>
      /\ UNCHANGED sofVars
      /\ UNCHANGED uploadVars

(* The refresh button, disabled while a lookup is loading.                 *)
RefreshRate ==
  /\ ~calc.isLoadingExchangeRate
  /\ StartFetch(calc, "fetchExchangeRate", "refresh")

(* The timer of the oldest request in flight fires (all timers run 500 ms, *)
(* so they fire in the order the requests were made) and fetchExchangeRate *)
(* resumes after its await.                                                *)
CompleteLookup ==
  /\ lookups # <<>>
  /\ LET done == fetchExchangeRateDone(calc, Head(lookups)) IN
     /\ calc' = done.calc
     /\ lookups' = Tail(lookups)
     /\ calcCall' = CalcCall("lookupDone", undefined, <<Head(lookups)>>, done.toasts)
     /\ UNCHANGED started
     /\ UNCHANGED sofVars
     /\ UNCHANGED uploadVars

(* The Calculate button.                                                   *)
Calculate ==
  /\ calc' = calculateDemurrage(calc)
  /\ calcCall' = CalcCall("calculateDemurrage", undefined, <<>>,
                          IF DOMAIN validateInputs(calc) = {}
                          THEN <<"success: Demurrage/Despatch calculated!">>
                          ELSE <<>>)
  /\ UNCHANGED <<lookups, started>>
  /\ UNCHANGED sofVars
  /\ UNCHANGED uploadVars

CalcNext ==
  \/ ChangeCurrency
  \/ TypeNumber
  \/ RefreshRate
  \/ CompleteLookup
  \/ Calculate

CalcSpec == CalcInit /\ [][CalcNext]_vars

(* Every timer that was set fires: a request in flight is answered.        *)
FairCalcSpec == CalcInit /\ [][CalcNext]_vars /\ WF_vars(CompleteLookup)

(* ---------------------------- Calculator forms -------------------------- *)
(* calculateDemurrage on the forms a user can have filled in.              *)

(* What can stand in the number fields: the field left or made empty, a    *)
(* negative number, zero, and amounts small and large.                     *)
FormDailyRates == {<<>>, <<0 - 1>>, <<0>>, <<1>>, <<10000>>}
FormAllowedTimes == {<<>>, <<0 - 1000>>, <<0>>, <<2000>>, <<3500>>}
FormUsedTimes == {<<>>, <<0 - 1000>>, <<0>>, <<2000>>, <<2004>>, <<3500>>}
FormExchangeRates == {<<>>, <<0 - 10000>>, <<0>>, <<9200>>, <<10000>>, <<20000>>}

(* The component once the lookup of its mount has been answered.           *)
Settled == fetchExchangeRateDone(Mounted.calc, Head(Mounted.request)).calc

(* The select of the target currency is set, and the effect of lines 74-76 *)
(* runs fetchExchangeRate when the pair has changed. For USD to USD it     *)
(* makes no request.                                                       *)
SelectTarget(c, value) ==
  LET changed == handleInputChange(c, "toCurrency", value) IN
  IF changed.toCurrency = c.toCurrency THEN changed
  ELSE fetchExchangeRateStart(changed).calc

(* The four number fields are typed into, one after the other.             *)
FillForm(c, rate, allowed, used, exchange) ==
  handleInputChange(
    handleInputChange(
      handleInputChange(
        handleInputChange(c, "dailyRate", rate),
        "allowedTimeDays", allowed),
      "usedTimeDays", used),
    "exchangeRate", exchange)

(* The form of an earlier calculation: 10000 a day, 2 days allowed, 3.5    *)
(* days used, at the rate of 1.                                            *)
EarlierForm(c) == FillForm(c, <<10000>>, <<2000>>, <<3500>>, <<10000>>)

FormInit ==
  /\ SofIdle
  /\ UploadIdle
  /\ \E target \in {"USD", "EUR"}, earlier \in BOOLEAN :
       \E rate \in FormDailyRates, allowed \in FormAllowedTimes,
          used \in FormUsedTimes, exchange \in FormExchangeRates :
         LET selected == SelectTarget(Settled, target)
             base == IF earlier THEN calculateDemurrage(EarlierForm(selected))
                     ELSE selected
         IN  calc = FillForm(base, rate, allowed, used, exchange)
  /\ lookups = <<>>
  /\ started = Len(Mounted.request)
  /\ calcCall = [NoCalcCall EXCEPT !.op = "handleInputChange",
                                   !.name = "exchangeRate",
                                   !.typedSince = TRUE,
                                   !.startedBefore = started,
                                   !.resultBefore = calc.calculationResult]

FormNext == Calculate

CalcFormSpec == FormInit /\ [][FormNext]_vars

(* ---------------------------- Upload sessions --------------------------- *)
(* A session of the dashboard's upload view: files are dropped, removed    *)
(* and processed in batches; the progress intervals and the answers of     *)
(* processFile arrive in any order the event loop allows.                  *)

(* The files listed at once, and the jobs of a session. *)
MaxFiles == 2

MaxJobs == 3

(* The files the user drops. *)
DroppedFiles ==
  {[name |-> "sof_kandla.pdf", validType |-> TRUE, size |-> 1],
   [name |-> "sof_mundra.docx", validType |-> TRUE, size |-> 2],
   [name |-> "photo.png", validType |-> FALSE, size |-> 1],
   [name |-> "scan.pdf", validType |-> TRUE, size |-> 11]}

(* file.size > 10 * 1024 * 1024, the sizes in megabytes.                   *)
TooLarge(file) == file.size > 10

(* The values of Math.random() * 20 the intervals draw. *)
RandomProgress == {4, 16}

(* What the backend answers, and the errors processFile throws. *)
ResponseData ==
  {[error |-> undefined, message |-> undefined, processingNote |-> undefined,
    events |-> <<2>>],
   [error |-> undefined, message |-> undefined, processingNote |-> undefined,
    events |-> <<>>],
   [error |-> "true", message |-> undefined, processingNote |-> undefined,
    events |-> <<>>],
   [error |-> undefined, message |-> undefined,
    processingNote |-> "Using sample data", events |-> <<2>>]}

ProcessFileErrors ==
  {"Backend server is not running. Please start the backend server first.",
   "An unexpected error occurred"}

(* processFile of the API service: it resolves with response.data, or its  *)
(* catch block throws an Error and the promise rejects.                    *)
processFile ==
  {Resolved(data) : data \in ResponseData}
    \cup {Rejected(message) : message \in ProcessFileErrors}

UploadInit ==
  /\ SofIdle
  /\ CalcIdle
  /\ UploadIdle

(* onDrop: the files of a valid type and size are appended.                *)
OnDrop ==
  /\ Len(uploadedFiles) < MaxFiles
  /\ Len(processingJobs) + Len(uploadedFiles) < MaxJobs
  /\ \E file \in DroppedFiles :
       LET validFiles ==
             SelectSeq(<<file>>, LAMBDA f : f.validType /\ ~TooLarge(f))
       IN  uploadedFiles' = uploadedFiles \o validFiles
  /\ UNCHANGED <<processing, processingJobs, processedFiles, storage, batch,
                 intervals, settled>>
  /\ UNCHANGED sofVars
  /\ UNCHANGED calcVars

(* removeFile, its button disabled while a batch is processed.             *)
RemoveFile ==
  /\ ~processing
  /\ \E index \in 0 .. Len(uploadedFiles) - 1 :
       uploadedFiles' =
         [i \in 1 .. Len(uploadedFiles) - 1 |->
            IF i - 1 < index THEN uploadedFiles[i] ELSE uploadedFiles[i + 1]]
  /\ UNCHANGED <<processing, processingJobs, processedFiles, storage, batch,
                 intervals, settled>>
  /\ UNCHANGED sofVars
  /\ UNCHANGED calcVars

(* An iteration of the loop of processFiles up to its await: the job is    *)
(* built and announced, its progress interval is set and processFile is    *)
(* called. jobs and timers are the job list and the intervals as the       *)
(* statements before left them, held is what the closure holds.            *)
StartJob(jobs, timers, held, position) ==
  LET file == held.files[position]
      job == NewJob(Len(jobs) + 1, file)
  IN  /\ processingJobs' = addProcessingJob(jobs, job)
      /\ intervals' = timers \cup {job}
      /\ batch' = [held EXCEPT !.position = position, !.job = <<job>>]

(* processFiles from the click to the first await. Its closure holds the   *)
(* uploadedFiles of the render it was made in and, through                 *)
(* onFileProcessed, the processedFiles of the Dashboard's render.          *)
ProcessFiles ==
  /\ ~processing
  /\ uploadedFiles # <<>>
  /\ processing' = TRUE
  /\ StartJob(processingJobs, intervals,
              [files |-> uploadedFiles, position |-> 0, job |-> <<>>,
               processedFiles |-> processedFiles, handed |-> <<>>], 1)
  /\ UNCHANGED <<uploadedFiles, processedFiles, storage, settled>>
  /\ UNCHANGED sofVars
  /\ UNCHANGED calcVars

(* A progress interval fires.                                              *)
ProgressInterval ==
  /\ \E job \in intervals : \E random \in RandomProgress :
       processingJobs' =
         updateProcessingJob(processingJobs, job.id, progressUpdates(job, random))
  /\ UNCHANGED <<uploadedFiles, processing, processedFiles, storage, batch,
                 intervals, settled>>
  /\ UNCHANGED sofVars
  /\ UNCHANGED calcVars

(* processFile settles and processFiles runs on to its next await, or to   *)
(* its end after the last file.                                            *)
ProcessFileSettles ==
  /\ batch.position > 0
  /\ \E outcome \in processFile :
       LET job == batch.job[1]
           file == batch.files[batch.position]
           after == afterProcessFile(job, file, outcome)
           timers == IF after.cleared THEN intervals \ {job} ELSE intervals
           jobs == updateProcessingJob(processingJobs, job.id, after.updates)
           held == [batch EXCEPT !.handed = @ \o after.processed]
       IN  /\ settled' = settled \cup {jobs[job.id]}
           /\ IF after.processed # <<>>
              THEN LET updatedFiles ==
                         addProcessedFile(batch.processedFiles, after.processed[1])
                   IN  /\ processedFiles' = updatedFiles
                       /\ storage' = <<updatedFiles>>
              ELSE UNCHANGED <<processedFiles, storage>>
           /\ IF batch.position < Len(batch.files)
              THEN /\ StartJob(jobs, timers, held, batch.position + 1)
                   /\ UNCHANGED <<uploadedFiles, processing>>
              ELSE /\ processingJobs' = jobs
                   /\ intervals' = timers
                   /\ batch' = [held EXCEPT !.position = 0, !.job = <<>>]
                   /\ processing' = FALSE
                   /\ uploadedFiles' = <<>>
  /\ UNCHANGED sofVars
  /\ UNCHANGED calcVars

UploadNext ==
  \/ OnDrop
  \/ RemoveFile
  \/ ProcessFiles
  \/ ProgressInterval
  \/ ProcessFileSettles

UploadSpec == UploadInit /\ [][UploadNext]_vars

(* ------------------------------ Properties ------------------------------ *)

InCatalog(id) == \E i \in 1 .. Len(sofEvents) : sofEvents[i].id = id

Mutations == {"addEventToSof", "removeEventFromSof", "updateEventInSof"}

IndexInBounds(index, events) == 0 <= index /\ index < Len(events)

(* C1: addEventToSof with an event id that is not in the catalog throws,   *)
(* and the timeline passed in, and the one the caller holds, keep exactly  *)
(* the occurrences they had before the call.                               *)
C1_UnknownEventRejected ==
  (lastCall.op = "addEventToSof" /\ ~InCatalog(lastCall.eventId)) =>
    /\ lastCall.threw
    /\ argAfter = before
    /\ sofDocument = before

C1_Witness ==
  /\ lastCall.op = "addEventToSof"
  /\ lastCall.eventId = "vessel_teleported"
  /\ lastCall.threw
  /\ Len(before.events) = 1
  /\ sofDocument.events = before.events

(* C2: removeEventFromSof and updateEventInSof throw exactly for the       *)
(* indexes outside 0 <= index < length (any index on an empty timeline),   *)
(* and a call that throws leaves the timeline as it was.                   *)
C2_IndexBounds ==
  lastCall.op \in {"removeEventFromSof", "updateEventInSof"} =>
    /\ lastCall.threw <=> ~IndexInBounds(lastCall.eventIndex, before.events)
    /\ lastCall.threw => (argAfter = before /\ sofDocument = before)

C2_Witness ==
  /\ lastCall.op = "removeEventFromSof"
  /\ lastCall.threw
  /\ Len(before.events) = 2
  /\ lastCall.eventIndex = 2
  /\ sofDocument = before

(* C3: every occurrence the timeline holds references an id of the         *)
(* catalog, after any sequence of create, add, remove and update calls.    *)
C3_OccurrencesInCatalog ==
  \A i \in 1 .. Len(sofDocument.events) : InCatalog(sofDocument.events[i].id)

C3_Witness ==
  /\ lastCall.op = "updateEventInSof"
  /\ ~lastCall.threw
  /\ Len(sofDocument.events) = 2
  /\ sofDocument.events[1].id # sofDocument.events[2].id

(* C4: add, remove and update never change the timeline they are given: a  *)
(* second holder of the argument sees the same document after the call.    *)
C4_ArgumentNotMutated ==
  lastCall.op \in Mutations => argAfter = before

C4_Witness ==
  /\ lastCall.op = "updateEventInSof"
  /\ ~lastCall.threw
  /\ sofDocument # before
  /\ argAfter = before

MutableFields == {"timestamp", "remarks", "location", "vesselName", "portName"}

(* C5: a successful updateEventInSof changes only mutable fields of the    *)
(* occurrence at the index; every other field of it, every other           *)
(* occurrence and the number of occurrences stay the same.                 *)
C5_UpdateFrame ==
  (lastCall.op = "updateEventInSof" /\ ~lastCall.threw) =>
    /\ Len(sofDocument.events) = Len(before.events)
    /\ \A i \in 1 .. Len(before.events) :
         IF i = lastCall.eventIndex + 1
         THEN /\ DOMAIN sofDocument.events[i] = DOMAIN before.events[i]
              /\ \A k \in DOMAIN before.events[i] :
                   sofDocument.events[i][k] # before.events[i][k] => k \in MutableFields
         ELSE sofDocument.events[i] = before.events[i]

C5_Witness ==
  /\ lastCall.op = "updateEventInSof"
  /\ ~lastCall.threw
  /\ Len(before.events) = 2
  /\ lastCall.eventIndex = 1
  /\ sofDocument.events[2].timestamp # before.events[2].timestamp
  /\ sofDocument.events[2].id = before.events[2].id


(* ------------------- Properties of the chronological view --------------- *)

Parseable(event) == ~DateGetTime(event.timestamp).nan

TimeOf(event) == DateGetTime(event.timestamp).v

(* The bijections of the positions of out onto those of in that make out   *)
(* a rearrangement of in: out[i] is the occurrence inserted at place p[i]. *)
Rearrangements(out, in) ==
  IF Len(out) # Len(in) THEN {}
  ELSE {p \in [1 .. Len(out) -> 1 .. Len(in)] :
          /\ \A i, j \in 1 .. Len(out) : i # j => p[i] # p[j]
          /\ \A i \in 1 .. Len(out) : out[i] = in[p[i]]}

(* C6: the chronological view is a permutation of the occurrences in       *)
(* ascending order of parsed timestamp, and occurrences with the same      *)
(* timestamp are in the order they were inserted.                          *)
C6_ChronologicalAscendingStable ==
  lastCall.op = "getSofEventsChronological" =>
    \E p \in Rearrangements(result, sofDocument.events) :
      \A i, j \in 1 .. Len(result) :
        (i < j /\ Parseable(result[i]) /\ Parseable(result[j])) =>
          /\ TimeOf(result[i]) <= TimeOf(result[j])
          /\ TimeOf(result[i]) = TimeOf(result[j]) => p[i] < p[j]

(* The same on the timelines whose timestamps can all be parsed.           *)
ChronologicalWhenAllParseable ==
  (/\ lastCall.op = "getSofEventsChronological"
   /\ \A i \in 1 .. Len(sofDocument.events) : Parseable(sofDocument.events[i])) =>
    C6_ChronologicalAscendingStable

(* C7: the chronological view keeps every occurrence, the ones whose       *)
(* timestamp cannot be parsed come after all the others, in the order they *)
(* were inserted.                                                          *)
C7_UnparseableSortLast ==
  lastCall.op = "getSofEventsChronological" =>
    \E p \in Rearrangements(result, sofDocument.events) :
      \A i, j \in 1 .. Len(result) :
        i < j =>
          /\ ~(~Parseable(result[i]) /\ Parseable(result[j]))
          /\ (~Parseable(result[i]) /\ ~Parseable(result[j])) => p[i] < p[j]

(* ----------------------- Properties of the durations -------------------- *)

ParseableTimes(events) ==
  {TimeOf(events[i]) : i \in {k \in 1 .. Len(events) : Parseable(events[k])}}

Latest(times) == CHOOSE x \in times : \A y \in times : y <= x

Earliest(times) == CHOOSE x \in times : \A y \in times : x <= y

AllParseable(events) == \A i \in 1 .. Len(events) : Parseable(events[i])

(* C8: calculateTotalTime is null for 0 or 1 occurrences; for 2 or more    *)
(* occurrences with valid timestamps it is the non-negative number of      *)
(* hours from the earliest to the latest timestamp.                        *)
C8_TotalTime ==
  lastCall.op = "calculateTotalTime" =>
    /\ Len(sofDocument.events) < 2 => result = Null
    /\ (Len(sofDocument.events) >= 2 /\ AllParseable(sofDocument.events)) =>
         /\ ~result.null
         /\ ~result.nan
         /\ result.v >= 0
         /\ result.v * 36000 =
              Latest(ParseableTimes(sofDocument.events))
                - Earliest(ParseableTimes(sofDocument.events))

C8_Witness ==
  /\ lastCall.op = "calculateTotalTime"
  /\ Len(sofDocument.events) = 3
  /\ AllParseable(sofDocument.events)
  /\ TimeOf(sofDocument.events[1]) > TimeOf(sofDocument.events[2])
  /\ TimeOf(sofDocument.events[2]) > TimeOf(sofDocument.events[3])
  /\ result = JsNumber(Num(350))

(* C9: calculateTotalTime is null whenever fewer than 2 of the timestamps  *)
(* can be parsed, whatever the number of occurrences.                      *)
C9_NullBelowTwoParseable ==
  (/\ lastCall.op = "calculateTotalTime"
   /\ Cardinality({i \in 1 .. Len(sofDocument.events) :
                     Parseable(sofDocument.events[i])}) < 2) =>
    result = Null

(* C10: the duration of every milestone pair is the time elapsed from the  *)
(* start occurrence's timestamp to the end occurrence's timestamp.         *)
C10_PairDurationIsElapsed ==
  lastCall.op = "getSofResultSection" =>
    \A i \in 1 .. Len(result.eventPairs) :
      LET pair == result.eventPairs[i] IN
      (Parseable(pair.startEvent) /\ Parseable(pair.endEvent)) =>
        pair.duration * 36000 = TimeOf(pair.endEvent) - TimeOf(pair.startEvent)


(* ------------------------ Properties of the summaries ------------------- *)

Categories == {SofEventCategory[i] : i \in 1 .. Len(SofEventCategory)}

RECURSIVE SumOver(_, _)
SumOver(f, keys) ==
  IF keys = {} THEN 0
  ELSE LET k == CHOOSE x \in keys : TRUE IN f[k] + SumOver(f, keys \ {k})

(* C18: the category counts have a key for every category, for the empty   *)
(* timeline too (all 0), and they sum to the number of occurrences.        *)
C18_SummaryCoversCategories ==
  lastCall.op = "getSofEventsSummary" =>
    /\ DOMAIN result = Categories
    /\ \A c \in Categories : result[c] >= 0
    /\ Len(sofDocument.events) = 0 => \A c \in Categories : result[c] = 0
    /\ SumOver(result, DOMAIN result) = Len(sofDocument.events)

C18_Witness ==
  /\ lastCall.op = "getSofEventsSummary"
  /\ Len(sofDocument.events) = 3
  /\ result["Arrival & Port Entry"] = 2
  /\ result["Cargo Operations"] = 1
  /\ result["Special Events"] = 0

(* C19: for 2 or more occurrences with valid timestamps the result section *)
(* reports a total time in port that is not null and not negative (0 when  *)
(* all timestamps coincide); null only below 2 occurrences.                *)
C19_TotalTimeInPortReported ==
  lastCall.op = "getSofResultSection" =>
    LET total == result.operationalSummary.totalTimeInPort IN
    /\ (Len(sofDocument.events) >= 2 /\ AllParseable(sofDocument.events)) =>
         (~total.null /\ ~total.nan /\ total.v >= 0)
    /\ (AllParseable(sofDocument.events) /\ total.null) => Len(sofDocument.events) < 2

HasEvent(events, id) == \E i \in 1 .. Len(events) : events[i].id = id

HasLoadingPair(events) ==
  HasEvent(events, "cargo_loading_started") /\ HasEvent(events, "cargo_loading_completed")

HasWaitingPair(events) ==
  HasEvent(events, "vessel_arrived_anchorage") /\ HasEvent(events, "vessel_alongside_berthed")

Calculated == calcCall.op = "calculateDemurrage"

(* The fields of the form that break a check: empty, negative, or for the  *)
(* exchange rate not above zero.                                           *)
Violating ==
  {name \in {"dailyRate", "allowedTimeDays", "usedTimeDays"} :
     calc[name] = <<>> \/ ~(calc[name][1] >= 0)}
    \cup {name \in {"exchangeRate"} : calc[name] = <<>> \/ ~(calc[name][1] > 0)}

(* The click passed validation and produced the result the component holds. *)
Computed == Calculated /\ Violating = {} /\ calc.calculationResult # <<>>

Used == calc.usedTimeDays[1]
Allowed == calc.allowedTimeDays[1]
Outcome == calc.calculationResult[1]

(* C11, as stated: for inputs that pass validation, used > allowed yields  *)
(* Demurrage with a strictly positive amount, used < allowed yields        *)
(* Despatch, and used = allowed yields Despatch with amount 0.             *)
C11_SignLawStrict ==
  Computed =>
    /\ Used > Allowed => Outcome.type = "Demurrage" /\ Outcome.amount > 0
    /\ Used < Allowed => Outcome.type = "Despatch"
    /\ Used = Allowed => Outcome.type = "Despatch" /\ Outcome.amount = 0

(* C11, amended: for inputs that pass validation, used > allowed yields    *)
(* Demurrage with an amount that is never negative and is strictly         *)
(* positive when (used - allowed) * dailyRate is at least 0.01; used <     *)
(* allowed yields Despatch; used = allowed yields Despatch with amount 0.  *)
C11_SignLaw ==
  Computed =>
    /\ Used > Allowed =>
         /\ Outcome.type = "Demurrage"
         /\ Outcome.amount >= 0
         /\ (Used - Allowed) * calc.dailyRate[1] >= 10 => Outcome.amount > 0
    /\ Used < Allowed => Outcome.type = "Despatch" /\ Outcome.amount >= 0
    /\ Used = Allowed => Outcome.type = "Despatch" /\ Outcome.amount = 0

(* A calculation with more time used than allowed at a daily rate of 0:    *)
(* Demurrage of amount 0.                                                  *)
C11_Witness ==
  /\ Computed
  /\ Used > Allowed
  /\ calc.dailyRate = <<0>>
  /\ Outcome.type = "Demurrage"
  /\ Outcome.amount = 0

(* C13: a result is computed only when all four checks pass; when a check  *)
(* fails, the errors are recorded under the names of the violating fields  *)
(* and of no other field, and the call produces no new result.             *)
C13_ValidationGatesResult ==
  Calculated =>
    /\ {name \in DOMAIN calc.errors : calc.errors[name] # ""} = Violating
    /\ Violating # {} =>
         /\ calc.calculationResult \in {<<>>, calcCall.resultBefore}
         /\ calcCall.toasts = <<>>
    /\ Violating = {} => calc.calculationResult # <<>>

(* A click with an empty used time and an exchange rate of 0.              *)
C13_Witness ==
  /\ Calculated
  /\ Violating = {"usedTimeDays", "exchangeRate"}
  /\ calc.exchangeRate = <<0>>
  /\ DOMAIN calc.errors = {"usedTimeDays", "exchangeRate"}
  /\ calc.calculationResult = <<>>

(* C12, as stated: a calculation performed with the same source and target *)
(* currency has a converted amount equal to its amount, whatever exchange  *)
(* rate was fetched or typed.                                              *)
C12_IdentityConversion ==
  Computed /\ calc.fromCurrency = calc.toCurrency =>
    Outcome.convertedAmount = Outcome.amount

(* C14, as stated: when validation rejects a calculation after an earlier  *)
(* one succeeded, the result held before the call is still held after it.  *)
C14_EarlierResultRetained ==
  Calculated /\ Violating # {} /\ calcCall.resultBefore # <<>> =>
    calc.calculationResult = calcCall.resultBefore

(* C14, amended: when validation rejects a calculation, the result of an   *)
(* earlier calculation is discarded: the component holds no result after   *)
(* the rejected call.                                                      *)
C14_EarlierResultDiscarded ==
  Calculated /\ Violating # {} => calc.calculationResult = <<>>

(* A rejected click after a calculation that had succeeded.                *)
C14_Witness ==
  /\ Calculated
  /\ Violating = {"exchangeRate"}
  /\ calcCall.resultBefore # <<>>
  /\ calcCall.resultBefore[1].type = "Demurrage"
  /\ calc.calculationResult = <<>>

(* The answer the service gave to the request that the last step resumed.  *)
Answer == getExchangeRate(calcCall.request[1].from, calcCall.request[1].to)

(* A lookup that completes leaves the fetched rate and a success message,  *)
(* or the rate 1.0 and a warning when the service failed, and the loading  *)
(* state is over.                                                          *)
LookupOutcome ==
  calcCall.op = "lookupDone" =>
    /\ ~calc.isLoadingExchangeRate
    /\ Answer.resolved =>
         /\ calc.exchangeRate # <<>>
         /\ calc.exchangeRate[1] * 100 = Answer.rate
         /\ calcCall.toasts = <<"success: Exchange rate fetched">>
    /\ ~Answer.resolved =>
         /\ calc.exchangeRate = <<10000>>
         /\ \E i \in 1 .. Len(calcCall.toasts) :
              calcCall.toasts[i] = "error: Failed to fetch exchange rate. Using default 1.0."

(* How many lookups have completed.                                        *)
completed == started - Len(lookups)

(* C15: every lookup that is started eventually completes; when it does,   *)
(* the exchange rate is the fetched rate, or 1.0 with a warning when the   *)
(* service failed, and the loading state ends.                             *)
C15_LookupsComplete ==
  /\ []LookupOutcome
  /\ \A i \in 1 .. MaxLookups : (started >= i) ~> (completed >= i)
  /\ calc.isLoadingExchangeRate ~> ~calc.isLoadingExchangeRate

(* A lookup of USD to EUR has completed with the rate 0.92.                *)
C15_Witness ==
  /\ calcCall.op = "lookupDone"
  /\ calcCall.request = <<[from |-> "USD", to |-> "EUR"]>>
  /\ calc.exchangeRate = <<9200>>
  /\ ~calc.isLoadingExchangeRate
  /\ completed = started

(* C16: when the source and the target currency are the same, acquiring    *)
(* the exchange rate sets it to 1.0 and makes no call to getExchangeRate.  *)
C16_NoLookupForSameCurrency ==
  calcCall.op = "fetchExchangeRate" /\ calc.fromCurrency = calc.toCurrency =>
    /\ calc.exchangeRate = <<10000>>
    /\ calcCall.request = <<>>
    /\ started = calcCall.startedBefore

(* The target currency was set to the source currency while the lookup of  *)
(* the mount was still in flight.                                          *)
C16_Witness ==
  /\ calcCall.op = "fetchExchangeRate"
  /\ calcCall.name = "toCurrency"
  /\ calc.fromCurrency = "USD"
  /\ calc.toCurrency = "USD"
  /\ calc.exchangeRate = <<10000>>
  /\ started = 1
  /\ Len(lookups) = 1

(* hundredths = thousandths * rate / 100000, exactly.                      *)
ExactProduct(hundredths, thousandths, rate) ==
  LET q == thousandths \div 100000
      r == thousandths % 100000
  IN  /\ (r * rate) % 100000 = 0
      /\ hundredths = q * rate + (r * rate) \div 100000

(* C17, as stated: for inputs that pass validation the amount is           *)
(* |used - allowed| * dailyRate and the converted amount is the amount     *)
(* times the exchange rate; 10000 a day, 2 days allowed, 3.5 days used,    *)
(* USD to USD give Demurrage, 15000 and 15000.                             *)
C17_Amounts ==
  Computed =>
    /\ Outcome.amount * 10 = Abs(Used - Allowed) * calc.dailyRate[1]
    /\ ExactProduct(Outcome.convertedAmount,
                    Abs(Used - Allowed) * calc.dailyRate[1], calc.exchangeRate[1])
    /\ ( /\ calc.dailyRate = <<10000>>
         /\ calc.allowedTimeDays = <<2000>>
         /\ calc.usedTimeDays = <<3500>>
         /\ calc.fromCurrency = "USD"
         /\ calc.toCurrency = "USD" ) =>
         /\ Outcome.type = "Demurrage"
         /\ Outcome.amount = 1500000
         /\ Outcome.convertedAmount = 1500000

(* -------------------- Properties of insertion and removal --------------- *)

Last(seq) == seq[Len(seq)]

(* C24: addEventToSof never rejects an occurrence for the quality of its   *)
(* data: with an id of the catalog it stores the occurrence, also when a   *)
(* field the event type requires is missing or the timestamp cannot be     *)
(* parsed; it throws for an unknown id only.                               *)
C24_NoRejectionForDataQuality ==
  /\ lastCall.op = "addEventToSof" =>
       /\ lastCall.threw <=> ~InCatalog(lastCall.eventId)
       /\ ~lastCall.threw =>
            /\ Len(sofDocument.events) = Len(before.events) + 1
            /\ Last(sofDocument.events).id = lastCall.eventId
  /\ \A eventId \in EventIds, in \in AddInputs :
       LET outcome == addEventToSof(sofDocument, eventId, in[1], in[2], in[3]) IN
       InCatalog(eventId) =>
         /\ ~outcome.threw
         /\ Last(outcome.value.events).timestamp = in[1]
         /\ Last(outcome.value.events).location = in[3]

(* An occurrence with an unparseable timestamp is stored, and after it one *)
(* of a type that requires a location, without a location.                 *)
C24_Witness ==
  /\ lastCall.op = "addEventToSof"
  /\ ~lastCall.threw
  /\ Len(sofDocument.events) = 2
  /\ DateGetTime(sofDocument.events[1].timestamp).nan
  /\ sofDocument.events[2].requiresLocation = "true"
  /\ sofDocument.events[2].location = undefined

(* C30: addEventToSof appends the occurrence at the end and the count      *)
(* grows by 1; removeEventFromSof at a valid index yields the sequence     *)
(* without that element, the others in their order; adding an occurrence   *)
(* and removing the last index restores the list.                          *)
C30_AddRemoveAlgebra ==
  /\ (lastCall.op = "addEventToSof" /\ ~lastCall.threw) =>
       /\ Len(sofDocument.events) = Len(before.events) + 1
       /\ SubSeq(sofDocument.events, 1, Len(before.events)) = before.events
       /\ Last(sofDocument.events).id = lastCall.eventId
  /\ (lastCall.op = "removeEventFromSof" /\ ~lastCall.threw) =>
       /\ Len(sofDocument.events) = Len(before.events) - 1
       /\ \A j \in 1 .. Len(sofDocument.events) :
            sofDocument.events[j] =
              before.events[IF j <= lastCall.eventIndex THEN j ELSE j + 1]
  /\ \A eventId \in EventIds, in \in AddInputs :
       LET added == addEventToSof(sofDocument, eventId, in[1], in[2], in[3]) IN
       ~added.threw =>
         LET removed == removeEventFromSof(added.value, Len(added.value.events) - 1)
         IN  ~removed.threw /\ removed.value.events = sofDocument.events

(* The first of two different occurrences was removed.                     *)
C30_Witness ==
  /\ lastCall.op = "removeEventFromSof"
  /\ ~lastCall.threw
  /\ lastCall.eventIndex = 0
  /\ Len(before.events) = 2
  /\ before.events[1] # before.events[2]
  /\ sofDocument.events = <<before.events[2]>>

(* ---------------------- Properties of the result section ---------------- *)

(* An optional text field that holds nothing.                              *)
Empty(value) == value = undefined \/ value = ""

(* The fields the type of an occurrence requires and the occurrence lacks.  *)
MissingRequired(event) ==
  {field \in {"timestamp", "remarks", "location"} :
     /\ CASE field = "timestamp" -> event.requiresTimestamp = TRUE
          [] field = "remarks" -> event.requiresRemarks = "true"
          [] field = "location" -> event.requiresLocation = "true"
     /\ Empty(event[field])}

(* C23, as stated: an occurrence of a type that requires a location (or    *)
(* remarks, or a timestamp) and has none is flagged in the output with an  *)
(* anomaly, and is not reported as clean.                                  *)
C23_MissingRequiredFieldFlagged ==
  lastCall.op = "getSofResultSection" =>
    \A i \in 1 .. Len(result.allEvents) :
      MissingRequired(result.allEvents[i]) # {} =>
        result.formattedEvents[i].anomalies # "Clean"

(* The milestones of the event pairs, in their order.                      *)
Milestones ==
  <<"vessel_arrived_anchorage", "vessel_alongside_berthed", "cargo_loading_started",
    "cargo_loading_completed", "vessel_cleared_port_limits">>

(* The position of the pairing that starts at milestone k, 0 if none.      *)
PairingAt(pairs, k) ==
  LET found == {i \in 1 .. Len(pairs) :
                  /\ pairs[i].startEvent.id = Milestones[k]
                  /\ pairs[i].endEvent.id = Milestones[k + 1]}
  IN  IF found = {} THEN 0 ELSE CHOOSE i \in found : TRUE

(* C26: the result section reports a pairing for two adjacent milestones   *)
(* exactly when both occur in the timeline; the pairings are in the order  *)
(* of the milestones, and every pairing joins two adjacent milestones.     *)
C26_PairingsOfAdjacentMilestones ==
  lastCall.op = "getSofResultSection" =>
    LET pairs == result.eventPairs IN
    /\ \A k \in 1 .. Len(Milestones) - 1 :
         (PairingAt(pairs, k) # 0) <=>
           (HasEvent(sofDocument.events, Milestones[k])
              /\ HasEvent(sofDocument.events, Milestones[k + 1]))
    /\ \A i \in 1 .. Len(pairs) :
         \E k \in 1 .. Len(Milestones) - 1 : PairingAt(pairs, k) = i
    /\ \A k, l \in 1 .. Len(Milestones) - 1 :
         (k < l /\ PairingAt(pairs, k) # 0 /\ PairingAt(pairs, l) # 0) =>
           PairingAt(pairs, k) < PairingAt(pairs, l)

(* Anchored, cargo loading started and completed, but not berthed: one     *)
(* pairing, none from anchored.                                            *)
C26_Witness ==
  /\ lastCall.op = "getSofResultSection"
  /\ HasEvent(sofDocument.events, "vessel_arrived_anchorage")
  /\ ~HasEvent(sofDocument.events, "vessel_alongside_berthed")
  /\ HasLoadingPair(sofDocument.events)
  /\ Len(result.eventPairs) = 1
  /\ result.eventPairs[1].startEvent.id = "cargo_loading_started"

(* -------------------- Properties of repeated queries -------------------- *)

(* C25: getSofEventsChronological is read-only and repeatable: the         *)
(* timeline's own list of occurrences, in insertion order, is after the    *)
(* call what it was before, and a second call on the timeline as the first *)
(* left it returns the same sequence.                                      *)
C25_ChronologicalReadOnlyRepeatable ==
  lastCall.op = "getSofEventsChronological" =>
    /\ argAfter = before
    /\ sofDocument.events = before.events
    /\ getSofEventsChronologicalCall(argAfter, sortEngine).value = result

(* A view of three occurrences that is in another order than the list.     *)
C25_Witness ==
  /\ lastCall.op = "getSofEventsChronological"
  /\ Len(before.events) = 3
  /\ result # before.events
  /\ result[1] = before.events[3]
  /\ sofDocument.events = before.events

(* ------------------------ Properties of the exports --------------------- *)

(* C21, as stated: exportSofToCsv emits the header and then one row for    *)
(* each occurrence, the rows in chronological order of the timestamps      *)
(* whatever the order of insertion, a missing location or remarks as an    *)
(* empty quoted string.                                                    *)
C21_CsvRowsChronological ==
  lastCall.op = "exportSofToCsv" =>
    LET rows == Tail(result) IN
    /\ Head(result) = CsvHeader
    /\ \E p \in Rearrangements(rows, [i \in 1 .. Len(sofDocument.events) |->
                                        CsvRow(sofDocument.events[i])]) : TRUE
    /\ \A i \in 1 .. Len(sofDocument.events) :
         /\ Empty(sofDocument.events[i].location) =>
              CsvRow(sofDocument.events[i])[4] = Cell(TRUE, "")
         /\ Empty(sofDocument.events[i].remarks) =>
              CsvRow(sofDocument.events[i])[5] = Cell(TRUE, "")
    /\ \A i, j \in 1 .. Len(rows) :
         (/\ i < j
          /\ ~DateGetTime(rows[i][3].text).nan
          /\ ~DateGetTime(rows[j][3].text).nan) =>
           DateGetTime(rows[i][3].text).v <= DateGetTime(rows[j][3].text).v

(* The fields of a document and of an occurrence.                          *)
DocumentFields == {"id", "vesselName", "portName", "arrivalDate", "departureDate"}
OccurrenceFields ==
  {"id", "category", "name", "description", "requiresTimestamp", "requiresRemarks",
   "requiresLocation", "timestamp", "remarks", "location", "vesselName", "portName"}

(* The two documents read the same: field by field, occurrence by          *)
(* occurrence in the same order, and neither has a property beyond the     *)
(* fields.                                                                 *)
Equivalent(imported, original) ==
  /\ DOMAIN imported \subseteq DocumentFields \cup {"events"}
  /\ \A field \in DocumentFields : Get(imported, field) = Get(original, field)
  /\ Len(imported.events) = Len(original.events)
  /\ \A i \in 1 .. Len(original.events) :
       /\ DOMAIN imported.events[i] \subseteq OccurrenceFields
       /\ Get(imported.events[i], "requiresTimestamp")
            = Get(original.events[i], "requiresTimestamp")
       /\ \A field \in OccurrenceFields \ {"requiresTimestamp"} :
            Get(imported.events[i], field) = Get(original.events[i], field)

CurrentPair == [from |-> calc.fromCurrency, to |-> calc.toCurrency]

(* The rate fetchExchangeRate leaves for a pair: 1 for identical           *)
(* currencies, the rate of the service, 1 when the service has none.       *)
RateFor(pair) ==
  IF pair.from = pair.to THEN 10000
  ELSE LET answer == getExchangeRate(pair.from, pair.to)
       IN  IF answer.resolved THEN answer.rate \div 100 ELSE 10000

(* C27, as stated: once no lookup is in flight the exchange rate field     *)
(* holds the rate of the selected pair of currencies, 1 when they are the  *)
(* same, unless the user has typed a rate since; and the response to a     *)
(* lookup started for an earlier selection does not overwrite the rate.    *)
C27_RateOfCurrentSelection ==
  /\ (lookups = <<>> /\ ~calcCall.typedSince) =>
       calc.exchangeRate = <<RateFor(CurrentPair)>>
  /\ (calcCall.op = "lookupDone" /\ calcCall.request[1] # CurrentPair) =>
       calc.exchangeRate = calcCall.rateBefore

(* ------------------------ Properties of the uploads --------------------- *)

Listed(files, id) == \E i \in DOMAIN files : files[i].id = id

(* C28: every file of a batch that processFiles handed to onFileProcessed  *)
(* is in the Dashboard's processedFiles list and in the persisted          *)
(* 'processedFiles' entry: adding a later file of the batch never drops a  *)
(* file added earlier.                                                     *)
C28_BatchKeepsEveryProcessedFile ==
  \A i \in DOMAIN batch.handed :
    /\ Listed(processedFiles, batch.handed[i].id)
    /\ storage # <<>>
    /\ Listed(storage[1], batch.handed[i].id)

(* C29: a job that had its terminal update is 'completed' with progress    *)
(* 100 or 'failed' with progress 0, it stays field by field as that update  *)
(* left it, and its progress interval is no longer set.                    *)
C29_TerminalUpdateIsFinal ==
  \A ended \in settled :
    /\ \/ ended.status = "completed" /\ ended.progress = 100
       \/ ended.status = "failed" /\ ended.progress = 0
    /\ processingJobs[ended.id] = ended
    /\ \A job \in intervals : job.id # ended.id

====
